---- MODULE Spec2Model ----
(***************************************************************************)
(* State-machine model of the FIBARO Intercom session code:                *)
(*   custom_components/fibaro_intercom/coordinator.py                      *)
(*       FibaroIntercomCoordinator  (sut = "coordinator")                  *)
(*   custom_components/fibaro_intercom/client.py                           *)
(*       FibaroIntercomClient       (sut = "client")                       *)
(* A behaviour exercises one of the two session implementations.  Every    *)
(* action is the code that runs between two suspension points (awaits) of  *)
(* one asyncio task; asyncio runs that code atomically.                    *)
(***************************************************************************)
EXTENDS Integers, Sequences, FiniteSets, TLC

\* ---------------------------------------------------------------- bounds
MaxId == 4
MaxAttempt == 2
MaxRun == 13
MaxEvents == 1
MaxNow == 3
MaxCalls == 3

\* ------------------------------------------------------ program constants
max_backoff == 600
MinTimeout == 250
MaxTimeout == 30000
default_expiry == 900

Relays == {0, 1}
Timeouts == {0, MinTimeout, MaxTimeout}     \* 0 stands for timeout=None
Tokens == {1, 2}                             \* 0 stands for token=None
Buttons == {1, 2}

\* Times are counted in milliseconds, so that exp_time / 1000.0 is exact; a
\* clock reading is at least 1, and 0 stands for "no time" (None, or the
\* initial _last_authentication_time = 0).
NoTime == 0
\* exp_time values a token result can carry; -1 stands for no exp_time key
NoExpTime == -1
\* an exp_time value that float() rejects (a string that is no number)
BadExpTime == -2
ExpTimes == {NoExpTime, 0, 1500, 900000}

VARIABLES
    sut,
    \* FibaroIntercomCoordinator fields
    connected, token, token_expires_at, last_authentication_time,
    stop_event, relay_states, message_id, auth_newer, websocket,
    \* what time.time() returns
    now,
    \* the coordinator's tasks
    listen_task, forced, health_task, reconnect_task, backoff, attempt,
    caller, result, disc,
    \* the transport and the observers
    sock, inbox, sent, data, bus, n_reconnect,
    \* FibaroIntercomClient fields and tasks
    c_websocket, c_token, c_request_id, c_pending, c_callbacks, c_connected,
    c_listen_task, c_reconnect_task, c_call, c_response, c_result, c_sock,
    c_delivered, c_lastSent,
    \* the calls made to add/remove_event_callback, how the last
    \* _handle_message call ended, close() calls on the websocket held
    c_history, c_handled, c_closes

coordFields == <<connected, token, token_expires_at, last_authentication_time,
                 stop_event, relay_states, message_id, auth_newer, websocket>>
coordTasks == <<listen_task, forced, health_task, reconnect_task, backoff,
                attempt, caller, result, disc>>
coordEnv == <<sock, inbox, sent, data, bus, n_reconnect>>
coordVars == <<coordFields, coordTasks, coordEnv>>
clientVars == <<c_websocket, c_token, c_request_id, c_pending, c_callbacks,
                c_connected, c_listen_task, c_reconnect_task, c_call,
                c_response, c_result, c_sock, c_delivered, c_lastSent,
                c_history, c_handled, c_closes>>
vars == <<sut, now, coordVars, clientVars>>

\* ------------------------------------------------------------- frames
\* kind tells what the frame holds besides a method: a result with a token,
\* the params of a notification, an error, another result; method is the
\* frame's "method" field ("" when the frame has none)
NoFrame == [kind |-> "none", n |-> 0, flag |-> FALSE, message |-> "", name |-> "",
            id |-> 0, exp_time |-> NoExpTime, method |-> ""]
TokenFrame(t) == [NoFrame EXCEPT !.kind = "token", !.n = t]
\* a message that json.loads rejects
InvalidJson == [NoFrame EXCEPT !.kind = "invalid"]
\* a frame that has a method field and a result holding a token
MethodTokenFrame(t, m) == [TokenFrame(t) EXCEPT !.method = m]
\* a token result that carries exp_time (milliseconds)
TokenFrameExp(t, e) == [TokenFrame(t) EXCEPT !.exp_time = e]
RelayStateChanged(r, b) ==
    [NoFrame EXCEPT !.kind = "relay", !.n = r, !.flag = b,
                    !.method = "com.fibaro.intercom.relay.stateChanged"]
ButtonStateChanged(b, s) ==
    [NoFrame EXCEPT !.kind = "button", !.n = b, !.flag = s,
                    !.method = "com.fibaro.intercom.device.buttonStateChanged"]
ErrorFrame(m, nm) == [NoFrame EXCEPT !.kind = "error", !.message = m, !.name = nm]
ResultFrame(b) == [NoFrame EXCEPT !.kind = "result", !.flag = b]
\* a result object that holds no token
EmptyResultFrame == [NoFrame EXCEPT !.kind = "empty"]

NoRequest == [method |-> "none", id |-> 0, token |-> 0, relay |-> 0, timeout |-> 0, has_timeout |-> FALSE]
LoginRequest(id) == [NoRequest EXCEPT !.method = "com.fibaro.intercom.account.login", !.id = id]
RefreshRequest(id, t) == [NoRequest EXCEPT !.method = "com.fibaro.intercom.account.refreshToken", !.id = id, !.token = t]

Min(a, b) == IF a < b THEN a ELSE b

\* the tasks that wait for a token frame: the three that can run
\* _async_login, and the health-check loop
Runners == {"caller", "reconnect", "forced", "health"}

\* ------------------------------------------- coordinator: pure helpers
\* variant of GetNextId: the counter starts over
GetNextIdReset(id) == IF id >= 2 THEN 1 ELSE id + 1

\* _get_next_id: self._message_id += 1; return self._message_id
GetNextId(id) == id + 1

\* variant of RelayOpenRequest: params always carry a timeout
RelayOpenRequestAlwaysTimeout(id, tok, relay, timeout) ==
    [method |-> "com.fibaro.intercom.relay.open", id |-> id, token |-> tok, relay |-> relay,
     timeout |-> timeout, has_timeout |-> TRUE]

\* the relay.open request built by async_open_relay: params carry token and
\* relay, and timeout only if one was given (timeout is not None)
RelayOpenRequest(id, tok, relay, timeout) ==
    [method |-> "com.fibaro.intercom.relay.open", id |-> id, token |-> tok, relay |-> relay,
     timeout |-> timeout, has_timeout |-> (timeout # 0)]

\* variant of Snapshot: the connected flag is always reported true
SnapshotConnected(c, rs) == [connected |-> TRUE, relay_states |-> rs]

\* the snapshot handed to async_set_updated_data
Snapshot(c, rs) == [connected |-> c, relay_states |-> rs]

\* variant of SetRelayState: every relay takes the new state
SetRelayStateAll(rs, relay, state) == [r \in DOMAIN rs |-> state]

\* self.relay_states[relay] = state: a dict assignment, which adds the key
\* when the dict does not hold it
SetRelayState(rs, relay, state) ==
    [r \in DOMAIN rs \cup {relay} |-> IF r = relay THEN state ELSE rs[r]]

\* the doorbell event fired on the Home Assistant bus
DoorbellEvent(button) ==
    [event |-> "fibaro_intercom.doorbell_pressed", button |-> button,
     device_id |-> "fibaro_intercom_host"]

\* variant of FireDoorbell: an event is fired for either state
FireDoorbellAlways(events, button, state) == Append(events, DoorbellEvent(button))

\* _async_handle_button_state_changed: an event is fired only if state is true
FireDoorbell(events, button, state) ==
    IF state THEN Append(events, DoorbellEvent(button)) ELSE events

\* variant of IsTokenInvalidation: only the message is looked at
IsTokenInvalidationByMessage(f) == f.kind = "error" /\ f.message = "Expired"

\* error frame that forces the disconnect-and-reconnect cycle
IsTokenInvalidation(f) ==
    f.kind = "error" /\ (f.message = "Expired" \/ f.name = "InvalidToken")

\* variant of NextBackoff: no cap
NextBackoffUncapped(b) == b * 2

\* backoff = min(backoff * 2, max_backoff)
NextBackoff(b) == Min(b * 2, max_backoff)

\* variant of TokenExpiresAt: exp_time is not looked at
TokenExpiresAtDefault(t, f) == t + default_expiry * 1000

\* token_expires_at after a token result is handled at time t:
\* time.time() + float(exp_time) / 1000.0, or time.time() + 900
TokenExpiresAt(t, f) ==
    IF f.exp_time # NoExpTime THEN t + f.exp_time
    ELSE t + default_expiry * 1000

\* variant of IsTokenExpired: a token never counts as expired
IsTokenExpiredNever(t) == FALSE

\* _is_token_expired, read at time t
IsTokenExpired(t) == token_expires_at # NoTime /\ t >= token_expires_at

\* `task and not task.done()`: the only way the coordinator reads a task
\* handle, so a task that has ended is recorded like no task ("none")
TaskAlive(t) == t # "none"

\* variant of ReconnectAlive: the handle is never looked at
ReconnectAliveNever == FALSE

\* `not self._reconnect_task or self._reconnect_task.done()` negated
ReconnectAlive == TaskAlive(reconnect_task)

\* auth_newer[p] stands for the comparison
\*     self._last_authentication_time > auth_before_login   (auth_before_refresh)
\* of the waiting task p: it is false when p records auth_before, and true
\* once a later token frame has set _last_authentication_time = time.time().
\* The login poll's test: that comparison, and self.token
LoginSeen(p) == auth_newer[p] /\ token # 0

\* auth_before_x = self._last_authentication_time, taken by task p
RecordAuthBefore(p) == [auth_newer EXCEPT ![p] = FALSE]

\* task p has left its wait (the local auth_before_x is gone)
DropAuthBefore(p) == [auth_newer EXCEPT ![p] = FALSE]

\* the comparisons after _last_authentication_time = time.time(): true for
\* the tasks polling in _async_login (the polling health-check task is
\* cancelled and replaced by the same frame)
AuthNewerAfterToken(waiting) == [p \in Runners |-> p \in waiting]

\* ------------------------------------------------------------- the device
ErrorMessages == {"Expired", "Invalid credentials", "Invalid relay"}
TokenReplies == {TokenFrameExp(t, e) : t \in Tokens, e \in ExpTimes}
LoginReplies == TokenReplies \cup {ErrorFrame("Invalid credentials", "")}
RefreshReplies == TokenReplies \cup {ErrorFrame("Expired", "")}
RelayReplies == {ResultFrame(TRUE), ErrorFrame("Invalid relay", ""),
                 ErrorFrame("Token error", "InvalidToken")}
Replies(method) ==
    IF method = "com.fibaro.intercom.account.login" THEN LoginReplies
    ELSE IF method = "com.fibaro.intercom.account.refreshToken" THEN RefreshReplies
    ELSE RelayReplies
AllReplies == LoginReplies \cup RefreshReplies \cup RelayReplies
\* replies whose token results carry no exp_time
DefaultExpiry == {f \in AllReplies : f.exp_time = NoExpTime}
PlainReplies == {f \in DefaultExpiry : ~IsTokenInvalidation(f)}
Notifications == {RelayStateChanged(r, b) : r \in Relays, b \in BOOLEAN}
                 \cup {ButtonStateChanged(b, s) : b \in Buttons, s \in BOOLEAN}

IdleCaller == [op |-> "none", pc |-> "idle", relay |-> 0, timeout |-> 0]
InitRelayStates == [r \in Relays |-> FALSE]

CoordInit ==
    /\ connected = FALSE /\ token = 0 /\ stop_event = FALSE
    /\ token_expires_at = NoTime /\ last_authentication_time = NoTime /\ now = 1
    /\ relay_states = InitRelayStates
    /\ message_id = 0 /\ auth_newer = [p \in Runners |-> FALSE] /\ websocket = "None"
    /\ listen_task = "none" /\ forced = "idle" /\ health_task = "none"
    /\ reconnect_task = "none" /\ backoff = 1 /\ attempt = 1
    /\ caller = IdleCaller /\ result = "none" /\ disc = "idle"
    /\ sock = "none" /\ inbox = NoFrame /\ sent = {}
    /\ data = Snapshot(FALSE, InitRelayStates)
    /\ bus = <<>> /\ n_reconnect = 0

\* ------------------------------------------------ coordinator: fragments
Coord == sut = "coordinator" /\ UNCHANGED <<sut, now, clientVars>>
reconnGroup == <<reconnect_task, backoff, attempt, n_reconnect>>
sendGroup == <<message_id, sent>>

\* variant of StartReconnect: no task is created
StartReconnectNever(cond) == UNCHANGED reconnGroup

\* if not self._reconnect_task or self._reconnect_task.done():
\*     self._reconnect_task = asyncio.create_task(self._async_reconnect_loop())
StartReconnect(cond) ==
    IF cond /\ ~ReconnectAlive
    THEN /\ reconnect_task' = "start" /\ backoff' = 1 /\ attempt' = 1
         /\ n_reconnect' = n_reconnect + 1
    ELSE UNCHANGED reconnGroup

\* the reconnect task ends (its locals backoff and attempt with it)
EndReconnect ==
    /\ reconnect_task' = "none" /\ n_reconnect' = n_reconnect - 1
    /\ backoff' = 1 /\ attempt' = 1

\* self._reconnect_task.cancel(); await self._reconnect_task
CancelReconnect ==
    /\ IF TaskAlive(reconnect_task) THEN EndReconnect
       ELSE UNCHANGED reconnGroup
    /\ auth_newer' = DropAuthBefore("reconnect")

\* variant of HandleDisconnection: the stop signal is not looked at
HandleDisconnectionRestart ==
    /\ connected' = FALSE
    /\ data' = Snapshot(FALSE, relay_states)
    /\ StartReconnect(TRUE)

\* _handle_disconnection
HandleDisconnection ==
    /\ connected' = FALSE
    /\ data' = Snapshot(FALSE, relay_states)
    /\ StartReconnect(~stop_event)

\* _async_connect_websocket once websockets.connect has returned, and
\* _async_login up to its first poll, run by task p: the new socket replaces
\* self.websocket, the listener task is replaced, the login request is sent
OpenAndLogin(p) ==
    /\ message_id < MaxId
    /\ websocket' = "ws" /\ sock' = "open"
    /\ inbox' = NoFrame
    /\ message_id' = GetNextId(message_id)
    /\ sent' = {LoginRequest(message_id')}
    /\ listen_task' = "run"
    /\ auth_newer' = RecordAuthBefore(p)

\* the effect of `self._listen_task.cancel()` in _async_login, run by another
\* task, on a listener that is inside the token-expiry handler: awaiting
\* inside async_disconnect's try blocks it swallows the cancellation, at any
\* later await it ends
ForcedAfterCancel ==
    IF listen_task = "forced" /\ forced # "F1" THEN "idle" ELSE forced

\* the part of async_open_relay after the connection check
SendRelayOpen(r, t) ==
    /\ message_id < MaxId
    /\ message_id' = GetNextId(message_id)
    /\ IF websocket = "ws" /\ sock = "open"
       THEN /\ sent' = sent \cup {RelayOpenRequest(message_id', token, r, t)}
            /\ result' = "returned"
            /\ UNCHANGED <<connected, data, reconnGroup>>
       ELSE /\ result' = "TransportError:send"
            /\ UNCHANGED <<sent>>
            /\ IF connected
               THEN /\ connected' = FALSE
                    /\ data' = Snapshot(FALSE, relay_states)
                    /\ StartReconnect(TRUE)
               ELSE UNCHANGED <<connected, data, reconnGroup>>

\* ------------------------------------------------- coordinator: callers
\* async_connect, up to its first await
CallConnect ==
    /\ Coord /\ caller.pc = "idle"
    /\ IF connected
       THEN result' = "returned" /\ UNCHANGED caller
       ELSE /\ caller' = [IdleCaller EXCEPT !.op = "connect", !.pc = "connecting"]
            /\ result' = "none"
    /\ UNCHANGED <<coordFields, listen_task, forced, health_task, reconnGroup,
                   disc, sock, inbox, sendGroup, data, bus>>

\* async_open_relay, up to its first await
CallOpenRelay(r, t) ==
    /\ Coord /\ caller.pc = "idle"
    /\ IF ~connected \/ token = 0
       THEN /\ caller' = [op |-> "open_relay", pc |-> "connecting",
                          relay |-> r, timeout |-> t]
            /\ result' = "none"
            /\ UNCHANGED <<connected, sendGroup, data, reconnGroup>>
       ELSE SendRelayOpen(r, t) /\ UNCHANGED caller
    /\ UNCHANGED <<token, token_expires_at, last_authentication_time,
                   stop_event, relay_states, auth_newer, websocket,
                   listen_task, forced, health_task, disc, sock, inbox, bus>>

\* websockets.connect returned inside the caller's connect sequence
CallerConnectOk ==
    /\ Coord /\ caller.pc = "connecting"
    /\ OpenAndLogin("caller")
    /\ forced' = ForcedAfterCancel
    /\ caller' = [caller EXCEPT !.pc = "loginwait"]
    /\ UNCHANGED <<connected, token, token_expires_at,
                   last_authentication_time, stop_event, relay_states, health_task,
                   reconnGroup, result, disc, data, bus>>

\* the except branches of async_connect and of async_open_relay
CallerFailure(exc) ==
    /\ StartReconnect(TRUE)
    /\ result' = IF caller.op = "connect" THEN exc
                 ELSE "ConnectionError:not_connected"
    /\ caller' = IdleCaller
    /\ auth_newer' = DropAuthBefore("caller")
    /\ UNCHANGED <<connected, token, token_expires_at,
                   last_authentication_time, stop_event, relay_states, websocket,
                   listen_task, forced, health_task, disc, sock, inbox,
                   sendGroup, data, bus>>

\* websockets.connect raised
CallerConnectFail ==
    /\ Coord /\ caller.pc = "connecting"
    /\ CallerFailure("TransportError:open")

\* _async_login: 20 polls passed without a token frame
CallerLoginTimeout ==
    /\ Coord /\ caller.pc = "loginwait" /\ ~LoginSeen("caller")
    /\ CallerFailure("ConnectionError:login_timeout")

\* _async_login returned; async_open_relay goes on to send
CallerLoginOk ==
    /\ Coord /\ caller.pc = "loginwait" /\ LoginSeen("caller")
    /\ caller' = IdleCaller
    /\ auth_newer' = DropAuthBefore("caller")
    /\ IF caller.op = "connect"
       THEN /\ result' = "returned"
            /\ UNCHANGED <<connected, sendGroup, data, reconnGroup>>
       ELSE SendRelayOpen(caller.relay, caller.timeout)
    /\ UNCHANGED <<token, token_expires_at, last_authentication_time,
                   stop_event, relay_states, websocket, listen_task,
                   forced, health_task, disc, sock, inbox, bus>>

\* ---------------------------------------------- coordinator: the listener
\* data published by the token branch: only when connected was false
DataAfterToken(c, rs, d) == IF ~c THEN Snapshot(TRUE, rs) ELSE d

\* the tasks polling in _async_login
LoginWaiters ==
    {p \in {"caller"} : caller.pc = "loginwait"}
    \cup {p \in {"reconnect"} : reconnect_task = "loginwait"}
    \cup {p \in {"forced"} : forced = "Flogin"}

\* _async_handle_message, a frame whose result holds a token
ListenToken ==
    /\ Coord /\ listen_task = "run" /\ inbox.kind = "token"
    /\ token' = inbox.n
    /\ IF inbox.exp_time = BadExpTime
       THEN \* float(result["exp_time"]) raises ValueError, caught per frame
            UNCHANGED <<token_expires_at, last_authentication_time,
                        auth_newer, connected, data, health_task>>
       ELSE /\ token_expires_at' = TokenExpiresAt(now, inbox)
            /\ last_authentication_time' = now
            /\ auth_newer' = AuthNewerAfterToken(LoginWaiters)
            /\ connected' = TRUE
            /\ data' = DataAfterToken(connected, relay_states, data)
            /\ health_task' = "wait"
    /\ inbox' = NoFrame
    /\ UNCHANGED <<stop_event, relay_states, websocket, listen_task, forced,
                   reconnGroup, caller, result, disc, sock, sendGroup, bus>>

\* _async_handle_relay_state_changed
ListenRelayStateChanged ==
    /\ Coord /\ listen_task = "run" /\ inbox.kind = "relay"
    /\ relay_states' = SetRelayState(relay_states, inbox.n, inbox.flag)
    /\ data' = Snapshot(connected, relay_states')
    /\ inbox' = NoFrame
    /\ UNCHANGED <<connected, token, token_expires_at,
                   last_authentication_time, stop_event, auth_newer, websocket,
                   coordTasks, sock, sendGroup, bus, n_reconnect>>

\* _async_handle_button_state_changed
ListenButtonStateChanged ==
    /\ Coord /\ listen_task = "run" /\ inbox.kind = "button"
    /\ bus' = FireDoorbell(bus, inbox.n, inbox.flag)
    /\ inbox' = NoFrame
    /\ UNCHANGED <<coordFields, coordTasks, sock, sendGroup, data,
                   n_reconnect>>

\* json.loads raised JSONDecodeError: a warning is logged
ListenInvalidJson ==
    /\ Coord /\ listen_task = "run" /\ inbox.kind = "invalid"
    /\ inbox' = NoFrame
    /\ UNCHANGED <<coordFields, coordTasks, sock, sendGroup, data, bus,
                   n_reconnect>>

\* an error frame that is only logged, or a result without a token
ListenLogged ==
    /\ Coord /\ listen_task = "run"
    /\ inbox.kind \in {"error", "result"} /\ ~IsTokenInvalidation(inbox)
    /\ inbox' = NoFrame
    /\ UNCHANGED <<coordFields, coordTasks, sock, sendGroup, data, bus,
                   n_reconnect>>

\* "Expired" / "InvalidToken": self.connected = False, then async_disconnect
\* up to its first await (stop signal set, the listener cancels and awaits
\* itself)
ListenTokenInvalid ==
    /\ Coord /\ listen_task = "run" /\ forced = "idle"
    /\ IsTokenInvalidation(inbox)
    /\ connected' = FALSE
    /\ stop_event' = TRUE
    /\ listen_task' = "forced" /\ forced' = "F1"
    /\ inbox' = NoFrame
    /\ UNCHANGED <<token, token_expires_at, last_authentication_time,
                   relay_states, auth_newer, websocket, health_task,
                   reconnGroup, caller, result, disc, sock, sendGroup, data,
                   bus>>

\* the receive loop ends with ConnectionClosed (abnormal code)
ListenConnectionClosed ==
    /\ Coord /\ listen_task = "run" /\ inbox = NoFrame /\ sock = "lost"
    /\ HandleDisconnection
    /\ listen_task' = "none"
    /\ UNCHANGED <<token, token_expires_at, last_authentication_time,
                   stop_event, relay_states, auth_newer, websocket,
                   forced, health_task, caller, result, disc, sock, inbox,
                   sendGroup, bus>>

\* the receive loop ends on a socket this side closed (code 1000): the
\* iterator either just stops, or ConnectionClosed(1000) reaches the handler
ListenStreamEnd ==
    /\ Coord /\ listen_task = "run" /\ inbox = NoFrame /\ sock = "closed"
    /\ \E raised \in BOOLEAN :
          IF raised THEN HandleDisconnection
          ELSE UNCHANGED <<connected, data, reconnGroup>>
    /\ listen_task' = "none"
    /\ UNCHANGED <<token, token_expires_at, last_authentication_time,
                   stop_event, relay_states, auth_newer, websocket,
                   forced, health_task, caller, result, disc, sock, inbox,
                   sendGroup, bus>>

\* --------------------------- the listener inside the token-expiry handler
\* the listener task leaves the handler and is back in its receive loop (on
\* the socket it was started on).  A listener that _listen_task no longer
\* names reads a superseded socket, on which the device sends nothing more.
ForcedEnd ==
    /\ forced' = "idle"
    /\ listen_task' = IF listen_task = "forced" THEN "run" ELSE listen_task

\* async_disconnect after the listener task (if any) has ended: the
\* health-check and reconnect tasks are cancelled and awaited, and close()
\* is started on self.websocket; with no websocket held the teardown
\* finishes in the same step.  `closing` and `finished` are the positions of
\* the running task after the step.
Teardown(pcvar, closing, finished) ==
    /\ health_task' = "none"
    /\ CancelReconnect
    /\ IF websocket = "ws"
       THEN /\ sock' = IF sock = "open" THEN "closed" ELSE sock
            /\ sent' = {}
            /\ pcvar' = closing
            /\ UNCHANGED <<connected, token, token_expires_at, data>>
       ELSE /\ pcvar' = finished
            /\ connected' = FALSE /\ token' = 0 /\ token_expires_at' = NoTime
            /\ data' = Snapshot(FALSE, relay_states)
            /\ UNCHANGED <<sock, sent>>

\* variant of TeardownFinish: the connected flag is left as it is
TeardownFinishKeepsConnected ==
    /\ websocket' = "None"
    /\ connected' = connected /\ token' = 0 /\ token_expires_at' = NoTime
    /\ data' = Snapshot(FALSE, relay_states)

\* async_disconnect once close() has returned
TeardownFinish ==
    /\ websocket' = "None"
    /\ connected' = FALSE /\ token' = 0 /\ token_expires_at' = NoTime
    /\ data' = Snapshot(FALSE, relay_states)

ForcedCancelTasks ==
    /\ Coord /\ forced = "F1"
    /\ Teardown(forced, "Fclose", "Fsleep")
    /\ UNCHANGED <<last_authentication_time, stop_event, relay_states, message_id, websocket,
                   listen_task, caller, result, disc, inbox, bus>>

\* async_disconnect after close() returned, up to asyncio.sleep(2)
ForcedCloseDone ==
    /\ Coord /\ forced = "Fclose"
    /\ TeardownFinish
    /\ forced' = "Fsleep"
    /\ UNCHANGED <<last_authentication_time, stop_event, relay_states, message_id, auth_newer,
                   listen_task, health_task, reconnGroup, caller, result, disc,
                   sock, inbox, sent, bus>>

\* the 2 s pause is over: async_connect is entered
ForcedSleepDone ==
    /\ Coord /\ forced = "Fsleep"
    /\ IF connected THEN ForcedEnd
       ELSE forced' = "Fconn" /\ UNCHANGED listen_task
    /\ UNCHANGED <<coordFields, health_task, reconnGroup, caller, result, disc,
                   coordEnv>>

\* websockets.connect returned inside the handler's async_connect: the
\* listener cancels itself in _async_login and ends at its next suspension,
\* unless _listen_task already names another task
ForcedConnectOk ==
    /\ Coord /\ forced = "Fconn"
    /\ forced' = IF listen_task = "forced" THEN "idle" ELSE "Flogin"
    /\ OpenAndLogin("forced")
    /\ UNCHANGED <<connected, token, token_expires_at,
                   last_authentication_time, stop_event, relay_states, health_task,
                   reconnGroup, caller, result, disc, data, bus>>

\* websockets.connect raised, or the login poll timed out: async_connect
\* starts the reconnect task and re-raises into the per-frame handler
ForcedConnectFail ==
    /\ Coord
    /\ \/ forced = "Fconn"
       \/ forced = "Flogin" /\ ~LoginSeen("forced")
    /\ StartReconnect(TRUE)
    /\ ForcedEnd
    /\ auth_newer' = DropAuthBefore("forced")
    /\ UNCHANGED <<connected, token, token_expires_at,
                   last_authentication_time, stop_event, relay_states, message_id,
                   websocket, health_task, caller, result, disc, sock, inbox,
                   sent, data, bus>>

ForcedLoginOk ==
    /\ Coord /\ forced = "Flogin" /\ LoginSeen("forced")
    /\ ForcedEnd
    /\ auth_newer' = DropAuthBefore("forced")
    /\ UNCHANGED <<connected, token, token_expires_at,
                   last_authentication_time, stop_event, relay_states, message_id,
                   websocket, health_task, reconnGroup, caller, result, disc,
                   coordEnv>>

\* ------------------------------------------- coordinator: the health check
\* _async_health_check_loop: the wait ended because the stop signal is set
HealthStop ==
    /\ Coord /\ health_task = "wait" /\ stop_event
    /\ health_task' = "none"
    /\ UNCHANGED <<coordFields, listen_task, forced, reconnGroup, caller,
                   result, disc, coordEnv>>

\* the check is due and _is_token_expired() holds: disconnection handling.
\* The clock is read after a wait whose length is not counted, so the
\* reading is `now` or any later time.
HealthExpired ==
    /\ Coord /\ health_task = "wait" /\ ~stop_event
    /\ connected /\ websocket = "ws"
    /\ \E t \in {now, token_expires_at} : t >= now /\ IsTokenExpired(t)
    /\ HandleDisconnection
    /\ health_task' = "none"
    /\ UNCHANGED <<token, token_expires_at, last_authentication_time,
                   stop_event, relay_states, message_id, auth_newer,
                   websocket, listen_task, forced, caller, result, disc, sock,
                   inbox, sent, bus>>

\* the check is due and the token is valid: account.refreshToken is sent; a
\* failing send is converted into disconnection handling
HealthRefresh ==
    /\ Coord /\ health_task = "wait" /\ ~stop_event
    /\ connected /\ websocket = "ws"
    /\ ~IsTokenExpired(now)
    /\ message_id < MaxId
    /\ message_id' = GetNextId(message_id)
    /\ IF sock = "open"
       THEN /\ sent' = sent \cup {RefreshRequest(message_id', token)}
            /\ auth_newer' = RecordAuthBefore("health")
            /\ health_task' = "poll"
            /\ UNCHANGED <<connected, data, reconnGroup>>
       ELSE /\ HandleDisconnection
            /\ health_task' = "none"
            /\ UNCHANGED <<sent, auth_newer>>
    /\ UNCHANGED <<token, token_expires_at, last_authentication_time,
                   stop_event, relay_states, websocket, listen_task,
                   forced, caller, result, disc, sock, inbox, bus>>

\* 20 polls without a token frame.  (A token frame cancels and replaces the
\* polling task, so the poll loop never sees its own success.)
HealthPollTimeout ==
    /\ Coord /\ health_task = "poll" /\ ~auth_newer["health"]
    /\ HandleDisconnection
    /\ health_task' = "none"
    /\ UNCHANGED <<token, token_expires_at, last_authentication_time,
                   stop_event, relay_states, message_id, auth_newer,
                   websocket, listen_task, forced, caller, result, disc, sock,
                   inbox, sent, bus>>

\* ------------------------------------------ coordinator: the reconnect loop
\* the task's first run: while not stop and not connected
ReconnectLoopCheck ==
    /\ Coord /\ reconnect_task = "start"
    /\ IF ~stop_event /\ ~connected
       THEN reconnect_task' = "connecting" /\ UNCHANGED <<backoff, attempt>>
       ELSE reconnect_task' = "none" /\ backoff' = 1 /\ attempt' = 1
    /\ UNCHANGED <<connected, token, token_expires_at,
                   last_authentication_time, stop_event, relay_states, message_id,
                   auth_newer, websocket, listen_task, forced, health_task,
                   caller, result, disc, sock, inbox, sent, data, bus>>
    /\ n_reconnect' = IF reconnect_task' = "none" THEN n_reconnect - 1
                      ELSE n_reconnect

ReconnectConnectOk ==
    /\ Coord /\ reconnect_task = "connecting"
    /\ OpenAndLogin("reconnect")
    /\ forced' = ForcedAfterCancel
    /\ reconnect_task' = "loginwait"
    /\ UNCHANGED <<connected, token, token_expires_at,
                   last_authentication_time, stop_event, relay_states, health_task,
                   backoff, attempt, n_reconnect, caller, result, disc, data,
                   bus>>

\* the attempt raised (websockets.connect, or the login timeout): the loop
\* starts waiting `backoff` seconds
ReconnectAttemptFailed(cap) ==
    /\ Coord
    /\ \/ reconnect_task = "connecting"
       \/ reconnect_task = "loginwait" /\ ~LoginSeen("reconnect")
    /\ attempt < cap
    /\ attempt' = attempt + 1
    /\ reconnect_task' = "backoff"
    /\ auth_newer' = DropAuthBefore("reconnect")
    /\ UNCHANGED <<connected, token, token_expires_at,
                   last_authentication_time, stop_event, relay_states, message_id,
                   websocket, listen_task, forced, health_task, backoff,
                   n_reconnect, caller, result, disc, sock, inbox, sent, data,
                   bus>>

\* the attempt succeeded: return
ReconnectLoginOk ==
    /\ Coord /\ reconnect_task = "loginwait" /\ LoginSeen("reconnect")
    /\ EndReconnect
    /\ auth_newer' = DropAuthBefore("reconnect")
    /\ UNCHANGED <<connected, token, token_expires_at,
                   last_authentication_time, stop_event, relay_states, message_id,
                   websocket, listen_task, forced, health_task, caller, result,
                   disc, sock, inbox, sent, data, bus>>

\* the stop signal ended the wait: break
ReconnectBackoffStop ==
    /\ Coord /\ reconnect_task = "backoff" /\ stop_event
    /\ EndReconnect
    /\ UNCHANGED <<coordFields, listen_task, forced, health_task, caller,
                   result, disc, sock, inbox, sent, data, bus>>

\* the wait timed out: backoff doubles, the loop condition is tested again
ReconnectBackoffElapsed ==
    /\ Coord /\ reconnect_task = "backoff" /\ ~stop_event
    /\ IF connected
       THEN EndReconnect
       ELSE /\ backoff' = NextBackoff(backoff)
            /\ reconnect_task' = "connecting"
            /\ UNCHANGED <<attempt, n_reconnect>>
    /\ UNCHANGED <<coordFields, listen_task, forced, health_task, caller,
                   result, disc, sock, inbox, sent, data, bus>>

\* --------------------------------------- coordinator: async_disconnect
\* async_disconnect called by the owner (unload, or _async_stop): the stop
\* signal is set and the listener task cancelled.  A listener that is inside
\* async_disconnect itself swallows the cancellation and runs on.
DiscStart ==
    /\ Coord /\ disc = "idle"
    /\ stop_event' = TRUE
    /\ IF listen_task = "forced" /\ forced = "F1"
       THEN /\ disc' = "wait"
            /\ UNCHANGED <<listen_task, forced, health_task, reconnGroup,
                           auth_newer, sock, sent, connected, token,
                           token_expires_at, data>>
       ELSE /\ listen_task' = "none"
            /\ forced' = IF listen_task = "forced" THEN "idle" ELSE forced
            /\ Teardown(disc, "close", "idle")
    /\ UNCHANGED <<last_authentication_time, relay_states, message_id, websocket, caller, result, inbox,
                   bus>>

\* the awaited listener task has ended
DiscListenerEnded ==
    /\ Coord /\ disc = "wait" /\ forced = "idle"
    /\ Teardown(disc, "close", "idle")
    /\ UNCHANGED <<last_authentication_time, stop_event, relay_states, message_id, websocket,
                   listen_task, forced, caller, result, inbox, bus>>

\* close() returned: reference, token and flag cleared, snapshot published
DiscFinish ==
    /\ Coord /\ disc = "close"
    /\ TeardownFinish
    /\ disc' = "idle"
    /\ UNCHANGED <<last_authentication_time, stop_event, relay_states, message_id, auth_newer,
                   listen_task, forced, health_task, reconnGroup, caller,
                   result, sock, inbox, sent, bus>>

\* ------------------------------------------- coordinator: device, network
\* the device answers a request it has received on the current connection
DeviceReply(replies) ==
    /\ Coord /\ sock = "open" /\ inbox = NoFrame
    /\ \E q \in sent : \E f \in Replies(q.method) \cap replies :
          /\ inbox' = f
          /\ sent' = sent \ {q}
    /\ UNCHANGED <<coordFields, coordTasks, sock, data, bus, n_reconnect>>

\* the device sends a notification
DeviceNotify(f) ==
    /\ Coord /\ sock = "open" /\ inbox = NoFrame
    /\ (f.kind = "button" /\ f.flag) => Len(bus) < MaxEvents
    /\ inbox' = f
    /\ UNCHANGED <<coordFields, coordTasks, sock, sent, data, bus,
                   n_reconnect>>

\* time passes
ClockTick ==
    /\ sut = "coordinator" /\ now < MaxNow
    /\ now' = now + 1
    /\ UNCHANGED <<sut, coordVars, clientVars>>

\* the connection drops (abnormal closure)
ConnectionLost ==
    /\ Coord /\ sock = "open"
    /\ sock' = "lost"
    /\ sent' = {}
    /\ UNCHANGED <<coordFields, coordTasks, inbox, data, bus, n_reconnect>>

\* the device closes the connection with the normal-closure code 1000
ConnectionClosedNormally ==
    /\ Coord /\ sock = "open"
    /\ sock' = "closed"
    /\ sent' = {}
    /\ UNCHANGED <<coordFields, coordTasks, inbox, data, bus, n_reconnect>>

\* --------------------------------------------------------------- client
\* (client.py, FibaroIntercomClient)
Client == sut = "client" /\ UNCHANGED <<sut, now, coordVars>>

Methods == {"com.fibaro.intercom.device.buttonStateChanged", "com.fibaro.intercom.relay.stateChanged"}
Handlers == {1, 2}                       \* 0 stands for no handler registered
max_reconnect_attempts == 10

\* exceptions and return values reported to the caller of a client method
NoResult == [type |-> "none", msg |-> "", cause |-> "", detail |-> ""]
Returned(v) == [NoResult EXCEPT !.type = "returned", !.msg = v]
\* variant of ConnectionFailed: the exception is passed on as it is
ConnectionFailedBare(cause, detail) ==
    [type |-> "Exception", msg |-> cause, cause |-> "", detail |-> detail]

\* raise FibaroIntercomConnectionError(f"Connection failed: {ex}") from ex
ConnectionFailed(cause, detail) ==
    [type |-> "FibaroIntercomConnectionError", msg |-> "Connection failed",
     cause |-> cause, detail |-> detail]
ClientError(msg) == [NoResult EXCEPT !.type = "FibaroIntercomConnectionError", !.msg = msg]

\* is_connected
IsConnected == c_connected /\ c_token # 0

\* self._request_id += 1; request_id = self._request_id
NextRequestId(id) == id + 1

ClientIdle == [op |-> "none", pc |-> "idle", id |-> 0, relay |-> 0, timeout |-> 0]

\* variant of Authenticate: an error response is read like any other result
AuthenticateSkipError(tok, response) ==
    IF response.kind = "token" THEN <<response.n, "", "">>
    ELSE <<0, "No token received in authentication response", "">>

\* what _authenticate does with the response to the login request, the
\* token held being tok: <<new token, exception text or "", detail>>.  A
\* result that is no object fails on result.get before the token is touched.
Authenticate(tok, response) ==
    IF response.kind = "error"
    THEN <<tok, "Authentication failed", response.message>>
    ELSE IF response.kind = "token"
    THEN <<response.n, "", "">>
    ELSE IF response.kind = "empty"
    THEN <<0, "No token received in authentication response", "">>
    ELSE <<tok, "AttributeError", "">>

\* variant of RelayResult: any truthy result counts as success
RelayResultTruthy(response) ==
    IF response.kind = "error" THEN "False"
    ELSE IF response.kind = "token" \/ (response.kind = "result" /\ response.flag)
    THEN "True" ELSE "False"

\* what open_relay returns for the response to relay.open
RelayResult(response) ==
    IF response.kind = "error" THEN "False"
    ELSE IF response.kind = "result" /\ response.flag THEN "True" ELSE "False"

\* _handle_message on a notification: the registered handler is called once
\* with the params, an unregistered method is dropped
Dispatch(delivered, callbacks, f) ==
    IF callbacks[f.method] # 0
    THEN Append(delivered, [handler |-> callbacks[f.method], method |-> f.method,
                            n |-> f.n, flag |-> f.flag])
    ELSE delivered

\* handlers that raise when they are called
Raising == {2}

\* try: self._event_callbacks[method](params) / except Exception: log it
CallbackOutcome(h) == "returned"

\* variant of AddCallback: the first registration for a method is kept
AddCallbackKeepFirst(callbacks, m, h) ==
    IF callbacks[m] # 0 THEN callbacks ELSE [callbacks EXCEPT ![m] = h]

\* self._event_callbacks[method] = callback
AddCallback(callbacks, m, h) == [callbacks EXCEPT ![m] = h]

\* self._event_callbacks.pop(method, None)
RemoveCallback(callbacks, m) == [callbacks EXCEPT ![m] = 0]

\* variant of CloseWebsocket: the connection is left as it is
CloseWebsocketNoop(so) == so

\* await self._websocket.close(): an open connection is closed
CloseWebsocket(so) == IF so = "open" THEN "closed" ELSE so

ClientNotification(m, n, b) ==
    [kind |-> "notification", method |-> m, n |-> n, flag |-> b, message |-> "",
     id |-> 0]
ClientResponse(f, id) ==
    [kind |-> f.kind, method |-> "", n |-> f.n, flag |-> f.flag,
     message |-> f.message, id |-> id]
NoResponse == ClientResponse(NoFrame, 0)

ClientInit ==
    /\ c_websocket = "None" /\ c_sock = "none" /\ c_token = 0
    /\ c_request_id = 0 /\ c_pending = {}
    /\ c_callbacks = [m \in Methods |-> 0]
    /\ c_connected = FALSE
    /\ c_listen_task = "none" /\ c_reconnect_task = "none"
    /\ c_call = ClientIdle /\ c_response = NoResponse /\ c_result = NoResult
    /\ c_delivered = <<>> /\ c_lastSent = NoRequest
    /\ c_history = <<>> /\ c_handled = "none" /\ c_closes = 0

\* add_event_callback
ClientAddCallback(m, h) ==
    /\ Client /\ Len(c_history) < MaxCalls
    /\ c_callbacks' = AddCallback(c_callbacks, m, h)
    /\ c_history' = Append(c_history, [op |-> "add", method |-> m, handler |-> h])
    /\ UNCHANGED <<c_websocket, c_token, c_request_id, c_pending, c_connected,
                   c_listen_task, c_reconnect_task, c_call, c_response,
                   c_result, c_sock, c_delivered, c_lastSent, c_handled,
                   c_closes>>

\* remove_event_callback
ClientRemoveCallback(m) ==
    /\ Client /\ Len(c_history) < MaxCalls
    /\ c_callbacks' = RemoveCallback(c_callbacks, m)
    /\ c_history' = Append(c_history, [op |-> "remove", method |-> m, handler |-> 0])
    /\ UNCHANGED <<c_websocket, c_token, c_request_id, c_pending, c_connected,
                   c_listen_task, c_reconnect_task, c_call, c_response,
                   c_result, c_sock, c_delivered, c_lastSent, c_handled,
                   c_closes>>

\* _send_request up to its wait: a fresh ID, a pending entry, the send
ClientSendRequest(req) ==
    /\ c_request_id < MaxId
    /\ c_request_id' = NextRequestId(c_request_id)
    /\ c_pending' = c_pending \cup {c_request_id'}
    /\ c_lastSent' = [req EXCEPT !.id = c_request_id']
    /\ c_response' = NoResponse

\* connect(), up to `await websockets.connect`
ClientConnectStart ==
    /\ Client /\ c_call.pc = "idle"
    /\ c_reconnect_task' = IF c_reconnect_task = "sleep" THEN "ended"
                           ELSE c_reconnect_task
    /\ c_call' = [ClientIdle EXCEPT !.op = "connect", !.pc = "connecting"]
    /\ c_result' = NoResult
    /\ UNCHANGED <<c_websocket, c_token, c_request_id, c_pending, c_callbacks,
                   c_history, c_handled, c_closes,
                   c_connected, c_listen_task, c_response, c_sock, c_delivered,
                   c_lastSent>>

\* websockets.connect raised
ClientConnectOpenFailed ==
    /\ Client /\ c_call.pc = "connecting"
    /\ c_result' = ConnectionFailed("OSError", "")
    /\ c_call' = ClientIdle
    /\ UNCHANGED <<c_websocket, c_token, c_request_id, c_pending, c_callbacks,
                   c_history, c_handled, c_closes,
                   c_connected, c_listen_task, c_reconnect_task, c_response,
                   c_sock, c_delivered, c_lastSent>>

\* websockets.connect returned; _authenticate sends the login request
ClientConnectOpened ==
    /\ Client /\ c_call.pc = "connecting"
    /\ c_websocket' = "ws" /\ c_sock' = "open" /\ c_closes' = 0
    /\ ClientSendRequest(LoginRequest(0))
    /\ c_call' = [c_call EXCEPT !.pc = "awaiting", !.id = c_request_id']
    /\ UNCHANGED <<c_token, c_callbacks,
                   c_history, c_handled, c_connected, c_listen_task,
                   c_reconnect_task, c_result, c_delivered>>

\* the login future was resolved: the rest of _authenticate and of connect()
ClientLoginResolved ==
    /\ Client /\ c_call.op = "connect" /\ c_call.pc = "awaiting"
    /\ c_response # NoResponse
    /\ LET a == Authenticate(c_token, c_response) IN
         /\ c_token' = a[1]
         /\ IF a[2] = ""
            THEN /\ c_connected' = TRUE
                 /\ c_listen_task' = "run"
                 /\ c_result' = Returned("None")
            ELSE /\ c_result' = ConnectionFailed(a[2], a[3])
                 /\ UNCHANGED <<c_connected, c_listen_task>>
    /\ c_call' = ClientIdle
    /\ c_response' = NoResponse
    /\ UNCHANGED <<c_websocket, c_request_id, c_pending, c_callbacks,
                   c_history, c_handled, c_closes,
                   c_reconnect_task, c_sock, c_delivered, c_lastSent>>

\* asyncio.wait_for(future, timeout=10.0): the 10 s have passed with the
\* future unresolved.  wait_for cancels the future and the waiting task is
\* resumed by the event loop at a later step; until then the entry is still
\* in the table
ClientWaitForExpired ==
    /\ Client /\ c_call.pc = "awaiting" /\ c_response = NoResponse
    /\ c_call' = [c_call EXCEPT !.pc = "timedout"]
    /\ UNCHANGED <<c_websocket, c_token, c_request_id, c_pending, c_callbacks,
                   c_history, c_handled, c_closes, c_connected, c_listen_task,
                   c_reconnect_task, c_response, c_result, c_sock,
                   c_delivered, c_lastSent>>

\* the task that runs connect() or open_relay() is cancelled by its owner
\* while it waits in _send_request: CancelledError is no Exception, so
\* neither except clause of _send_request runs, and connect() does not wrap it
ClientCallCancelled ==
    /\ Client /\ c_call.pc = "awaiting"
    /\ c_result' = [NoResult EXCEPT !.type = "CancelledError"]
    /\ c_call' = ClientIdle
    /\ c_response' = NoResponse
    /\ UNCHANGED <<c_websocket, c_token, c_request_id, c_pending, c_callbacks,
                   c_history, c_handled, c_closes, c_connected, c_listen_task,
                   c_reconnect_task, c_sock, c_delivered, c_lastSent>>

\* `except asyncio.TimeoutError` in the resumed _send_request
ClientRequestTimeout ==
    /\ Client /\ c_call.pc = "timedout"
    /\ c_pending' = c_pending \ {c_call.id}
    /\ c_result' = IF c_call.op = "connect"
                   THEN ConnectionFailed("Request timeout", "")
                   ELSE ClientError("Request timeout")
    /\ c_call' = ClientIdle
    /\ UNCHANGED <<c_websocket, c_token, c_request_id, c_callbacks,
                   c_history, c_handled, c_closes,
                   c_connected, c_listen_task, c_reconnect_task, c_response,
                   c_sock, c_delivered, c_lastSent>>

\* open_relay, up to the wait for the response
ClientOpenRelay(r, t) ==
    /\ Client /\ c_call.pc = "idle"
    /\ IF ~IsConnected
       THEN /\ c_result' = ClientError("Not connected")
            /\ UNCHANGED <<c_request_id, c_pending, c_lastSent, c_response,
                           c_call>>
       ELSE IF c_websocket = "None"
       THEN /\ c_result' = ClientError("WebSocket not connected")
            /\ UNCHANGED <<c_request_id, c_pending, c_lastSent, c_response,
                           c_call>>
       ELSE IF c_sock # "open"
       THEN /\ c_request_id < MaxId
            /\ c_request_id' = NextRequestId(c_request_id)
            /\ c_result' = ClientError("Request failed")
            /\ UNCHANGED <<c_pending, c_lastSent, c_response, c_call>>
       ELSE /\ ClientSendRequest(RelayOpenRequest(0, c_token, r, t))
            /\ c_call' = [op |-> "open_relay", pc |-> "awaiting",
                          id |-> c_request_id', relay |-> r, timeout |-> t]
            /\ c_result' = NoResult
    /\ UNCHANGED <<c_websocket, c_token, c_callbacks,
                   c_history, c_handled, c_closes, c_connected,
                   c_listen_task, c_reconnect_task, c_sock, c_delivered>>

\* the relay.open future was resolved
ClientRelayResolved ==
    /\ Client /\ c_call.op = "open_relay" /\ c_call.pc = "awaiting"
    /\ c_response # NoResponse
    /\ c_result' = Returned(RelayResult(c_response))
    /\ c_call' = ClientIdle
    /\ c_response' = NoResponse
    /\ UNCHANGED <<c_websocket, c_token, c_request_id, c_pending, c_callbacks,
                   c_history, c_handled, c_closes,
                   c_connected, c_listen_task, c_reconnect_task, c_sock,
                   c_delivered, c_lastSent>>

\* the future of the request with this ID has been cancelled by wait_for and
\* _send_request has not yet resumed: future.set_result then raises
\* asyncio.InvalidStateError
FutureCancelled(id) == c_call.pc = "timedout" /\ c_call.id = id

\* _handle_message(data): run by the listener task for a frame read from the
\* socket, or called directly with a frame (as tests/test_client.py does)
ClientHandleMessage(f) ==
    /\ Client
    /\ IF f.id # 0 /\ f.id \in c_pending
       THEN /\ c_pending' = c_pending \ {f.id}
            /\ IF FutureCancelled(f.id)
               THEN c_handled' = "InvalidStateError" /\ UNCHANGED c_response
               ELSE c_handled' = "returned" /\ c_response' = f
            /\ UNCHANGED c_delivered
       ELSE IF f.kind = "notification"
       THEN /\ Len(c_delivered) < MaxEvents
            /\ c_delivered' = Dispatch(c_delivered, c_callbacks, f)
            /\ c_handled' = IF c_callbacks[f.method] # 0
                             THEN CallbackOutcome(c_callbacks[f.method])
                             ELSE "returned"
            /\ UNCHANGED <<c_pending, c_response>>
       ELSE /\ c_handled' = "returned"
            /\ UNCHANGED <<c_pending, c_response, c_delivered>>
    /\ UNCHANGED <<c_websocket, c_token, c_request_id, c_callbacks,
                   c_history, c_closes,
                   c_connected, c_listen_task, c_reconnect_task, c_call,
                   c_result, c_sock, c_lastSent>>

\* disconnect(): flags and tasks first, then close() is awaited
ClientDisconnect ==
    /\ Client /\ c_call.pc = "idle"
    /\ c_connected' = FALSE
    /\ c_reconnect_task' = "none"
    /\ c_listen_task' = "none"
    /\ IF c_websocket = "ws"
       THEN /\ c_sock' = CloseWebsocket(c_sock)
            /\ c_closes' = c_closes + 1
            /\ c_call' = [ClientIdle EXCEPT !.op = "disconnect", !.pc = "closing"]
            /\ c_result' = NoResult
            /\ UNCHANGED c_token
       ELSE /\ c_token' = 0
            /\ c_result' = Returned("None")
            /\ UNCHANGED <<c_sock, c_call, c_closes>>
    /\ UNCHANGED <<c_websocket, c_request_id, c_pending, c_callbacks,
                   c_history, c_handled, c_response, c_delivered, c_lastSent>>

\* close() returned
ClientDisconnectFinish ==
    /\ Client /\ c_call.pc = "closing"
    /\ c_websocket' = "None" /\ c_token' = 0
    /\ c_call' = ClientIdle
    /\ c_result' = Returned("None")
    /\ UNCHANGED <<c_request_id, c_pending, c_callbacks,
                   c_history, c_handled, c_closes, c_connected,
                   c_listen_task, c_reconnect_task, c_response, c_sock,
                   c_delivered, c_lastSent>>

\* the connection drops
ClientConnectionLost ==
    /\ Client /\ c_sock = "open"
    /\ c_sock' = "lost"
    /\ UNCHANGED <<c_websocket, c_token, c_request_id, c_pending, c_callbacks,
                   c_history, c_handled, c_closes,
                   c_connected, c_listen_task, c_reconnect_task, c_call,
                   c_response, c_result, c_delivered, c_lastSent>>

\* _listen_for_messages: ConnectionClosed ends the receive loop
ClientListenClosed ==
    /\ Client /\ c_listen_task = "run" /\ c_sock = "lost"
    /\ c_connected' = FALSE
    /\ c_listen_task' = "ended"
    /\ c_reconnect_task' = IF max_reconnect_attempts > 0 THEN "sleep"
                           ELSE c_reconnect_task
    /\ UNCHANGED <<c_websocket, c_token, c_request_id, c_pending, c_callbacks,
                   c_history, c_handled, c_closes,
                   c_call, c_response, c_result, c_sock, c_delivered,
                   c_lastSent>>

\* _reconnect: the delay is over and connect() is called; connect() cancels
\* self._reconnect_task, the task that is running it, which ends at
\* `await websockets.connect`
ClientReconnectAttempt ==
    /\ Client /\ c_reconnect_task = "sleep"
    /\ c_reconnect_task' = "ended"
    /\ UNCHANGED <<c_websocket, c_token, c_request_id, c_pending, c_callbacks,
                   c_history, c_handled, c_closes,
                   c_connected, c_listen_task, c_call, c_response, c_result,
                   c_sock, c_delivered, c_lastSent>>

ClientResponses ==
    {ClientResponse(f, id) :
        f \in LoginReplies \cup RelayReplies \cup {ResultFrame(FALSE), EmptyResultFrame},
        id \in 1..MaxId}
ClientNotifications ==
    {ClientNotification("com.fibaro.intercom.device.buttonStateChanged", b, s) : b \in Buttons, s \in BOOLEAN}
    \cup {ClientNotification("com.fibaro.intercom.relay.stateChanged", r, s) : r \in Relays, s \in BOOLEAN}

\* the client's steps apart from event callbacks
ClientSteps ==
    \/ ClientConnectStart
    \/ ClientConnectOpenFailed
    \/ ClientConnectOpened
    \/ ClientLoginResolved
    \/ ClientWaitForExpired
    \/ ClientRequestTimeout
    \/ ClientRelayResolved
    \/ ClientDisconnect
    \/ ClientDisconnectFinish
    \/ ClientConnectionLost
    \/ ClientListenClosed
    \/ ClientReconnectAttempt

\* ------------------------------------------------------- specifications
Init == sut \in {"coordinator", "client"} /\ CoordInit /\ ClientInit
CoordinatorInit == sut = "coordinator" /\ CoordInit /\ ClientInit

\* the coordinator's steps that take no input
CoordSteps ==
    \/ CallConnect
    \/ CallerConnectOk
    \/ CallerConnectFail
    \/ CallerLoginTimeout
    \/ CallerLoginOk
    \/ ListenToken
    \/ ListenLogged
    \/ ListenConnectionClosed
    \/ HealthRefresh
    \/ HealthPollTimeout
    \/ ReconnectLoopCheck
    \/ ReconnectConnectOk
    \/ ReconnectLoginOk
    \/ ReconnectBackoffElapsed
    \/ ConnectionLost

\* the token-expiry handler, the stop signal and the owner's disconnect
CoordStopSteps ==
    \/ ListenTokenInvalid
    \/ ListenStreamEnd
    \/ ForcedCancelTasks
    \/ ForcedCloseDone
    \/ ForcedSleepDone
    \/ ForcedConnectOk
    \/ ForcedConnectFail
    \/ ForcedLoginOk
    \/ HealthStop
    \/ HealthExpired
    \/ ReconnectBackoffStop
    \/ DiscStart
    \/ DiscListenerEnded
    \/ DiscFinish

\* one token value, one relay.open argument pair
OneToken == {f \in DefaultExpiry : f.kind = "token" => f.n = 1}

\* Spec: every task and every path of the two sessions, over the smallest
\* input domains
Next ==
    \/ CoordSteps
    \/ CoordStopSteps
    \/ ReconnectAttemptFailed(MaxAttempt)
    \/ CallOpenRelay(0, 0)
    \/ DeviceReply(OneToken)
    \/ ClientSteps
    \/ ClientOpenRelay(0, 0)
    \/ \E f \in {r \in ClientResponses : r.kind = "token" => r.n = 1} :
          ClientHandleMessage(f)

Spec == Init /\ [][Next]_vars

\* LiveSpec: Spec, with the event loop's progress for a listener that is in
\* the token-expiry handler: the tasks it cancelled end, close() returns (or
\* gives up after its close timeout), and asyncio.sleep(2) ends
ForcedFairness ==
    /\ WF_vars(ForcedCancelTasks)
    /\ WF_vars(ForcedCloseDone)
    /\ WF_vars(ForcedSleepDone)

LiveSpec == Init /\ [][Next]_vars /\ ForcedFairness

\* The specifications below run the sessions without stop signal and token
\* invalidation, each over the full domain of one kind of input.
PlainOneToken == PlainReplies \cap OneToken

\* RelaySpec: relay.open calls with every relay, timeout and token, on a
\* network that accepts every connection attempt
RelayNext ==
    \/ CallConnect
    \/ CallerConnectOk
    \/ CallerLoginOk
    \/ ListenToken
    \/ ListenLogged
    \/ ListenConnectionClosed
    \/ HealthRefresh
    \/ ReconnectLoopCheck
    \/ ReconnectConnectOk
    \/ ReconnectLoginOk
    \/ ConnectionLost
    \/ DeviceReply(PlainReplies)
    \/ \E r \in Relays, t \in Timeouts : CallOpenRelay(r, t)

RelaySpec == CoordinatorInit /\ [][RelayNext]_vars

\* NotifySpec: every relay.stateChanged notification
NotifyNext ==
    \/ CoordSteps
    \/ ReconnectAttemptFailed(MaxAttempt)
    \/ DeviceReply(PlainOneToken)
    \/ \E r \in Relays, b \in BOOLEAN : DeviceNotify(RelayStateChanged(r, b))
    \/ ListenRelayStateChanged

NotifySpec == CoordinatorInit /\ [][NotifyNext]_vars

\* DoorbellSpec: every device.buttonStateChanged notification, for the
\* coordinator and for the client with its event callbacks
DoorbellNext ==
    \/ CoordSteps
    \/ ReconnectAttemptFailed(MaxAttempt)
    \/ DeviceReply(PlainOneToken)
    \/ \E b \in Buttons, s \in BOOLEAN : DeviceNotify(ButtonStateChanged(b, s))
    \/ ListenButtonStateChanged
    \/ \E m \in Methods, h \in Handlers : ClientAddCallback(m, h)
    \/ \E m \in Methods : ClientRemoveCallback(m)
    \/ \E f \in ClientNotifications : ClientHandleMessage(f)

DoorbellSpec == Init /\ [][DoorbellNext]_vars

\* BackoffSpec: long runs of the reconnect loop
BackoffNext ==
    \/ CoordSteps
    \/ ReconnectAttemptFailed(MaxRun)
    \/ DeviceReply(PlainOneToken)

BackoffSpec == CoordinatorInit /\ [][BackoffNext]_vars

\* ExpirySpec: token results with every exp_time, handled at different times
ExpiryReplies == {f \in AllReplies : ~IsTokenInvalidation(f) /\ (f.kind = "token" => f.n = 1)}

ExpiryNext ==
    \/ CoordSteps
    \/ ReconnectAttemptFailed(MaxAttempt)
    \/ DeviceReply(ExpiryReplies)
    \/ HealthExpired
    \/ ClockTick

ExpirySpec == CoordinatorInit /\ [][ExpiryNext]_vars

\* ------------------------------------------------------------- properties
\* StopSpec: the coordinator's tasks, the token-expiry handler and
\* async_disconnect, with the event loop's progress for the waits that race
\* against the stop signal: asyncio.wait_for(self._stop_event.wait(), ...)
\* returns once the signal is set
StopNext ==
    \/ CoordSteps
    \/ CoordStopSteps
    \/ ReconnectAttemptFailed(MaxAttempt)
    \/ DeviceReply(OneToken)

StopFairness ==
    /\ ForcedFairness
    /\ WF_vars(ReconnectBackoffStop) /\ WF_vars(HealthStop)

StopSpec == CoordinatorInit /\ [][StopNext]_vars /\ StopFairness

\* HealSpec: the session left to itself.  The owner never calls
\* async_disconnect and Home Assistant does not stop; connections are lost,
\* closed by the device, fail to open; tokens expire and are rejected.
HealReplies == {f \in OneToken : f.kind = "token"}

HealNext ==
    \/ CoordSteps
    \/ ListenTokenInvalid
    \/ ListenStreamEnd
    \/ ForcedCancelTasks
    \/ ForcedCloseDone
    \/ ForcedSleepDone
    \/ ForcedConnectOk
    \/ ForcedConnectFail
    \/ ForcedLoginOk
    \/ HealthStop
    \/ HealthExpired
    \/ ReconnectBackoffStop
    \/ ReconnectAttemptFailed(MaxAttempt)
    \/ CallOpenRelay(0, 0)
    \/ DeviceReply(OneToken)
    \/ ConnectionClosedNormally

\* fair scheduling: a task that can run does run, a frame that has arrived is
\* handled, a wait ends
SchedulingFairness ==
    /\ WF_vars(ListenToken) /\ WF_vars(ListenLogged)
    /\ WF_vars(ListenTokenInvalid)
    /\ WF_vars(ListenConnectionClosed) /\ WF_vars(ListenStreamEnd)
    /\ WF_vars(ForcedCancelTasks) /\ WF_vars(ForcedCloseDone)
    /\ WF_vars(ForcedSleepDone) /\ WF_vars(ForcedLoginOk)
    /\ WF_vars(ReconnectLoopCheck) /\ WF_vars(ReconnectLoginOk)
    /\ WF_vars(ReconnectBackoffElapsed) /\ WF_vars(ReconnectBackoffStop)
    /\ WF_vars(CallerLoginOk) /\ WF_vars(HealthStop)

\* the device, from some point on, accepts connections and answers logins
\* with a token
DeviceFairness ==
    /\ SF_vars(ReconnectConnectOk) /\ SF_vars(ForcedConnectOk)
    /\ SF_vars(CallerConnectOk)
    /\ WF_vars(DeviceReply(HealReplies))

HealSpec == CoordinatorInit /\ [][HealNext]_vars /\ SchedulingFairness /\ DeviceFairness

\* RetainSpec: Spec's coordinator with a relay.stateChanged notification
RetainNext ==
    \/ CoordSteps
    \/ CoordStopSteps
    \/ ReconnectAttemptFailed(MaxAttempt)
    \/ CallOpenRelay(0, 0)
    \/ DeviceReply(OneToken)
    \/ DeviceNotify(RelayStateChanged(1, TRUE))
    \/ ListenRelayStateChanged

RetainSpec == CoordinatorInit /\ [][RetainNext]_vars

\* RouteSpec: the coordinator's session with a device that also sends a relay
\* notification for relay 1 and one for a relay 2 that does not exist, a
\* frame holding both a method and a token result, a message that is not
\* JSON and a token result whose exp_time is no number
RouteNext ==
    \/ CoordSteps
    \/ ReconnectAttemptFailed(MaxAttempt)
    \/ DeviceReply(OneToken)
    \/ DeviceNotify(RelayStateChanged(1, TRUE))
    \/ DeviceNotify(MethodTokenFrame(2, "com.fibaro.intercom.relay.stateChanged"))
    \/ DeviceNotify(RelayStateChanged(2, TRUE))
    \/ DeviceNotify(InvalidJson)
    \/ DeviceNotify(TokenFrameExp(2, BadExpTime))
    \/ ListenRelayStateChanged
    \/ ListenInvalidJson

RouteSpec == CoordinatorInit /\ [][RouteNext]_vars

\* ShutdownSpec: the coordinator with an owner who makes no call after
\* async_disconnect: once the stop signal is set no async_connect or
\* async_open_relay is started, so that whatever runs after the shutdown was
\* in flight before it.  The device answers every login with a token.
OwnerConnect == ~stop_event /\ CallConnect
OwnerOpenRelay == ~stop_event /\ CallOpenRelay(0, 0)

ShutdownNext ==
    \/ OwnerConnect
    \/ OwnerOpenRelay
    \/ CallerConnectOk
    \/ CallerConnectFail
    \/ CallerLoginTimeout
    \/ CallerLoginOk
    \/ ListenToken
    \/ ListenLogged
    \/ ListenConnectionClosed
    \/ HealthRefresh
    \/ HealthPollTimeout
    \/ HealthStop
    \/ ReconnectLoopCheck
    \/ ReconnectConnectOk
    \/ ReconnectLoginOk
    \/ ReconnectBackoffElapsed
    \/ ReconnectAttemptFailed(MaxAttempt)
    \/ ConnectionLost
    \/ DeviceReply(PlainReplies)
    \/ DiscStart
    \/ DiscFinish

ShutdownSpec == CoordinatorInit /\ [][ShutdownNext]_vars

\* CancelSpec: the client alone, with an owner who may cancel the task that
\* runs a call
ClientOnlyInit == sut = "client" /\ CoordInit /\ ClientInit

CancelNext ==
    \/ ClientSteps
    \/ ClientOpenRelay(0, 0)
    \/ ClientCallCancelled
    \/ \E f \in {r \in ClientResponses : r.kind = "token" => r.n = 1} :
          ClientHandleMessage(f)

CancelSpec == ClientOnlyInit /\ [][CancelNext]_vars

\* C1: every request ID an instance allocates is strictly greater than every
\* ID it allocated earlier: the coordinator's and the client's counters never
\* go down, and every frame written carries the counter's new, larger value.
C1_RequestIdsIncrease ==
    [][ /\ message_id' >= message_id
        /\ \A q \in sent' \ sent : q.id = message_id' /\ q.id > message_id
        /\ c_request_id' >= c_request_id
        /\ c_pending' \ c_pending \subseteq {c_request_id'}
        /\ (c_lastSent' # c_lastSent) =>
              (c_lastSent'.id = c_request_id' /\ c_lastSent'.id > c_request_id)
      ]_vars

\* the third ID has been allocated after a forced disconnect and reconnect
C1_Witness ==
    message_id >= 3 /\ stop_event /\ connected /\ websocket = "ws"

\* C2 (as stated): a call of async_open_relay(r, t) made while connected is
\* true and a token is held sends exactly one relay.open request, with the
\* current token, the relay, and the timeout iff one was given.
C2_OneRelayOpenSent ==
    [][ \A r \in Relays, t \in Timeouts :
          (connected /\ token # 0 /\ CallOpenRelay(r, t)) =>
              \E q \in sent' :
                 /\ q \notin sent /\ sent' = sent \cup {q}
                 /\ q.method = "com.fibaro.intercom.relay.open" /\ q.id = message_id'
                 /\ q.token = token /\ q.relay = r
                 /\ q.has_timeout = (t # 0) /\ (t # 0 => q.timeout = t)
      ]_vars

\* C2 (amended): the same, provided the transport takes the write; if the
\* write fails no frame is sent at all and the call raises.
C2_OneRelayOpenSentIfWritable ==
    [][ \A r \in Relays, t \in Timeouts :
          (connected /\ token # 0 /\ CallOpenRelay(r, t)) =>
              IF websocket = "ws" /\ sock = "open"
              THEN \E q \in sent' :
                      /\ q \notin sent /\ sent' = sent \cup {q}
                      /\ q.method = "com.fibaro.intercom.relay.open" /\ q.id = message_id'
                      /\ q.token = token /\ q.relay = r
                      /\ q.has_timeout = (t # 0) /\ (t # 0 => q.timeout = t)
                      /\ result' = "returned"
              ELSE sent' = sent /\ result' = "TransportError:send"
      ]_vars

\* a relay.open with token 2, relay 1 and the largest timeout is in flight
C2_Witness ==
    /\ result = "returned" /\ connected /\ token = 2
    /\ \E q \in sent : /\ q.method = "com.fibaro.intercom.relay.open" /\ q.token = 2 /\ q.relay = 1
                       /\ q.has_timeout /\ q.timeout = MaxTimeout

\* C3: at most one reconnect task is alive; a trigger that fires while one is
\* alive creates none; an abnormal ConnectionClosed with none alive and the
\* stop signal not set creates exactly one.
C3_OneReconnectTask ==
    [][ /\ n_reconnect' <= 1
        /\ n_reconnect >= 1 => n_reconnect' <= n_reconnect
        /\ (ListenConnectionClosed /\ n_reconnect = 0 /\ ~stop_event) =>
              (n_reconnect' = 1 /\ reconnect_task' = "start")
      ]_vars

\* the listener has ended on a dropped connection and a reconnect task has
\* just been created
C3_Witness ==
    /\ n_reconnect = 1 /\ reconnect_task = "start" /\ listen_task = "none"
    /\ sock = "lost" /\ ~stop_event /\ ~connected /\ data.connected = FALSE

\* C4: while the loop waits after its k-th consecutive failure (attempt is
\* k + 1) the wait is min(2^(k-1), 600); before an attempt the next wait is
\* min(2^(attempt-1), 600); a new run starts at 1.
C4_BackoffSequence ==
    /\ backoff >= 1 /\ backoff <= 600
    /\ reconnect_task = "backoff" =>
          backoff = (IF 2^(attempt - 2) < 600 THEN 2^(attempt - 2) ELSE 600)
    /\ reconnect_task \in {"connecting", "loginwait"} =>
          backoff = (IF 2^(attempt - 1) < 600 THEN 2^(attempt - 1) ELSE 600)
    /\ reconnect_task \in {"none", "start"} => (backoff = 1 /\ attempt = 1)

\* the wait after the eleventh failure: 1024 capped to 600
C4_Witness == reconnect_task = "backoff" /\ attempt = 12 /\ backoff = 600

C6_RelayStatePublished ==
    [][ ListenRelayStateChanged =>
          /\ relay_states'[inbox.n] = inbox.flag
          /\ \A r \in Relays \ {inbox.n} : relay_states'[r] = relay_states[r]
          /\ data' = [connected |-> connected, relay_states |-> relay_states']
          /\ connected' = connected
      ]_vars

\* relay 1 has been reported open while connected, relay 0 never
C6_Witness ==
    /\ relay_states[1] = TRUE /\ relay_states[0] = FALSE
    /\ data = [connected |-> TRUE, relay_states |-> relay_states]

\* C7 (as stated): a token frame that arrives while connected is false stores
\* the token, sets connected and publishes connected=true with the current
\* relay_states; and whenever connected turns true, the snapshot published
\* last says connected=false, i.e. the preceding change to false was
\* published.
C7_EveryChangePublished ==
    [][ /\ (ListenToken /\ ~connected) =>
              /\ token' = inbox.n /\ connected'
              /\ data' = [connected |-> TRUE, relay_states |-> relay_states]
        /\ (~connected /\ connected') => data.connected = FALSE
      ]_vars

C10_DoorbellDelivered ==
    [][ /\ ListenButtonStateChanged =>
              IF inbox.flag
              THEN bus' = Append(bus, [event |-> "fibaro_intercom.doorbell_pressed",
                                       button |-> inbox.n,
                                       device_id |-> "fibaro_intercom_host"])
              ELSE bus' = bus
        /\ \A f \in ClientNotifications :
              ( /\ ClientHandleMessage(f)
                /\ f.method = "com.fibaro.intercom.device.buttonStateChanged"
                /\ c_callbacks[f.method] # 0 ) =>
                 c_delivered' = Append(c_delivered,
                                       [handler |-> c_callbacks[f.method],
                                        method |-> f.method,
                                        n |-> f.n, flag |-> f.flag])
      ]_vars

\* one doorbell event, for button 2, is on the bus
C10_Witness ==
    /\ Len(bus) = 1 /\ bus[1].button = 2
    /\ bus[1].event = "fibaro_intercom.doorbell_pressed"

\* C11: handling a token result at time now sets token_expires_at to
\* now + exp_time/1000 s if the result carries exp_time (900000 gives
\* now + 900 s) and to now + 900 s if it does not, and sets
\* _last_authentication_time to now (times in milliseconds); the handler does
\* not look at which request the frame answers.
C11_TokenExpiry ==
    [][ ListenToken =>
          /\ inbox.exp_time = -1 => token_expires_at' = now + 900000
          /\ inbox.exp_time = 900000 => token_expires_at' = now + 900000
          /\ inbox.exp_time # -1 => token_expires_at' = now + inbox.exp_time
          /\ last_authentication_time' = now
          /\ token' = inbox.n /\ now' = now
      ]_vars

\* a token result with exp_time 1500 was handled at time 3, after an earlier
\* one (a refresh request or a second login has been sent)
C11_Witness ==
    /\ token_expires_at = 1503 /\ last_authentication_time = 3 /\ now = 3
    /\ message_id >= 2 /\ connected

\* C12 (as stated): in every connect sequence the listener for the new
\* connection is started before the login request is sent: at the step that
\* writes the login request, a listener task is running for the coordinator,
\* and for the client.
C12_ListenerStartedBeforeLogin ==
    [][ /\ (\E q \in sent' \ sent : q.method = "com.fibaro.intercom.account.login") =>
              (listen_task' = "run" /\ websocket' = "ws")
        /\ ( /\ c_lastSent' # c_lastSent
             /\ c_lastSent'.method = "com.fibaro.intercom.account.login" ) =>
              c_listen_task' = "run"
      ]_vars

\* C13 (as stated): async_open_relay called while connected is false or no
\* token is held makes exactly one connect+login attempt; if it succeeds the
\* relay.open request is sent with the token just obtained; if it fails the
\* call raises ConnectionError, sends no relay.open, keeps nothing of the
\* command, and a reconnect task is alive afterwards.
C13_ReconnectBeforeRelayOpen ==
    [][ /\ ( /\ caller.op = "open_relay" /\ caller.pc = "loginwait"
             /\ caller'.pc = "idle" /\ auth_newer["caller"] /\ token # 0 ) =>
              ( /\ result' = "returned"
                /\ \E q \in sent' : /\ q \notin sent /\ sent' = sent \cup {q}
                                    /\ q.method = "com.fibaro.intercom.relay.open"
                                    /\ q.token = token /\ q.relay = caller.relay )
        /\ (caller.pc = "idle" /\ caller'.op = "open_relay") =>
              ( /\ ~connected \/ token = 0
                /\ caller'.pc = "connecting"
                /\ sent' = sent /\ message_id' = message_id )
        /\ (caller.op = "open_relay" /\ caller.pc = "connecting" /\ caller' # caller) =>
              \/ /\ caller'.pc = "loginwait"
                 /\ message_id' = message_id + 1
                 /\ sent' = {[method |-> "com.fibaro.intercom.account.login",
                              id |-> message_id', token |-> 0, relay |-> 0,
                              timeout |-> 0, has_timeout |-> FALSE]}
              \/ caller'.pc = "idle"
        /\ (caller.op = "open_relay" /\ caller.pc = "loginwait") =>
              caller'.pc \in {"loginwait", "idle"}
        /\ ( /\ caller.op = "open_relay" /\ caller.pc # "idle"
             /\ caller'.pc = "idle"
             /\ ~(caller.pc = "loginwait" /\ auth_newer["caller"] /\ token # 0) ) =>
              ( /\ result' = "ConnectionError:not_connected"
                /\ sent' = sent /\ message_id' = message_id
                /\ reconnect_task' # "none" /\ n_reconnect' = 1
                /\ caller'.op = "none" /\ caller'.relay = 0
                /\ caller'.timeout = 0 )
      ]_vars

\* C13 (amended): the same, except that after a successful attempt the
\* relay.open request is written only if the transport still accepts it; if
\* the write fails nothing is sent and the transport's error is raised.
C13_ReconnectThenSendOrRaise ==
    [][ /\ ( /\ caller.op = "open_relay" /\ caller.pc = "loginwait"
             /\ caller'.pc = "idle" /\ auth_newer["caller"] /\ token # 0 ) =>
              IF websocket = "ws" /\ sock = "open"
              THEN /\ result' = "returned"
                   /\ \E q \in sent' : /\ q \notin sent /\ sent' = sent \cup {q}
                                       /\ q.method = "com.fibaro.intercom.relay.open"
                                       /\ q.token = token /\ q.relay = caller.relay
              ELSE result' = "TransportError:send" /\ sent' = sent
        /\ (caller.pc = "idle" /\ caller'.op = "open_relay") =>
              ( /\ ~connected \/ token = 0
                /\ caller'.pc = "connecting"
                /\ sent' = sent /\ message_id' = message_id )
        /\ (caller.op = "open_relay" /\ caller.pc = "connecting" /\ caller' # caller) =>
              \/ /\ caller'.pc = "loginwait"
                 /\ message_id' = message_id + 1
                 /\ sent' = {[method |-> "com.fibaro.intercom.account.login",
                              id |-> message_id', token |-> 0, relay |-> 0,
                              timeout |-> 0, has_timeout |-> FALSE]}
              \/ caller'.pc = "idle"
        /\ (caller.op = "open_relay" /\ caller.pc = "loginwait") =>
              caller'.pc \in {"loginwait", "idle"}
        /\ ( /\ caller.op = "open_relay" /\ caller.pc # "idle"
             /\ caller'.pc = "idle"
             /\ ~(caller.pc = "loginwait" /\ auth_newer["caller"] /\ token # 0) ) =>
              ( /\ result' = "ConnectionError:not_connected"
                /\ sent' = sent /\ message_id' = message_id
                /\ reconnect_task' # "none" /\ n_reconnect' = 1
                /\ caller'.op = "none" /\ caller'.relay = 0
                /\ caller'.timeout = 0 )
      ]_vars

\* the immediate attempt has failed: the call has raised, nothing of it is in
\* flight, and the reconnect task it created has not run yet
C13_Witness ==
    /\ result = "ConnectionError:not_connected" /\ caller.pc = "idle"
    /\ reconnect_task = "start" /\ sent = {} /\ ~connected /\ message_id = 0

\* the write of relay.open inside async_open_relay has just failed: an id
\* was taken, nothing was written, and the transport's error is the outcome
RelaySendFailed ==
    /\ result' = "TransportError:send"
    /\ message_id' = message_id + 1 /\ sent' = sent
    /\ health_task' = health_task

\* C14 (as stated): when the send of relay.open fails inside async_open_relay, then as
\* the error is re-raised connected is false, the published snapshot is
\* connected=false with the relay states unchanged, and a reconnect task is
\* alive (created by this step if none was running).
C14_SendFailureMarksDisconnected ==
    [][ RelaySendFailed =>
          /\ connected' = FALSE
          /\ data' = [connected |-> FALSE, relay_states |-> relay_states]
          /\ relay_states' = relay_states
          /\ ReconnectAlive'
          /\ n_reconnect' = 1
      ]_vars

\* C14 (amended): when the send of relay.open fails while connected is still
\* true, then as the error is re-raised connected is false, the snapshot
\* connected=false with the relay states unchanged has been published, and a
\* reconnect task is alive (created by this step if none was running); when
\* connected is already false the step publishes nothing and creates no task.
C14_SendFailureMarksIfConnected ==
    [][ RelaySendFailed =>
          /\ connected' = FALSE
          /\ relay_states' = relay_states
          /\ IF connected
             THEN /\ data' = [connected |-> FALSE, relay_states |-> relay_states]
                  /\ ReconnectAlive' /\ n_reconnect' = 1
                  /\ ~ReconnectAlive => reconnect_task' = "start"
                  /\ ReconnectAlive => reconnect_task' = reconnect_task
             ELSE UNCHANGED <<data, reconnect_task, n_reconnect>>
      ]_vars

\* a send failure has just marked the session disconnected and created the
\* reconnect task
C14_Witness ==
    /\ result = "TransportError:send" /\ ~connected /\ token # 0
    /\ sock = "lost" /\ reconnect_task = "start" /\ ~data.connected
    /\ ~stop_event /\ message_id = 2

\* C15 (as stated): open_relay of the client has exactly these outcomes: not
\* connected or no token, it raises FibaroIntercomConnectionError and sends
\* nothing (no id taken, no pending entry); otherwise it sends one relay.open
\* with the current token and returns true exactly when the matching response
\* has no error and its result is the boolean true, false otherwise.
C15_OpenRelayOutcomes ==
    [][ /\ (c_call.op = "none" /\ IsConnected /\ c_result' # c_result
            /\ c_result'.type = "FibaroIntercomConnectionError") => FALSE
        /\ (c_call.op = "open_relay" /\ c_call'.pc = "idle") =>
              c_result'.type = "returned"
        /\ ( /\ c_call.op = "none" /\ ~IsConnected
             /\ c_result' # c_result
             /\ c_result'.type = "FibaroIntercomConnectionError" ) =>
              ( /\ c_result'.msg = "Not connected"
                /\ c_request_id' = c_request_id /\ c_pending' = c_pending
                /\ c_lastSent' = c_lastSent /\ c_call' = c_call )
        /\ (c_call.op = "none" /\ c_call'.op = "open_relay") =>
              ( /\ IsConnected
                /\ c_request_id' = c_request_id + 1
                /\ c_pending' = c_pending \cup {c_request_id'}
                /\ c_lastSent' = [method |-> "com.fibaro.intercom.relay.open",
                                  id |-> c_request_id', token |-> c_token,
                                  relay |-> c_call'.relay,
                                  timeout |-> c_call'.timeout,
                                  has_timeout |-> (c_call'.timeout # 0)] )
        /\ ( /\ c_call.op = "open_relay" /\ c_call'.pc = "idle"
             /\ c_result'.type = "returned" ) =>
              ( /\ c_response.id = c_call.id /\ c_lastSent.id = c_call.id
                /\ c_result'.msg \in {"True", "False"}
                /\ c_result'.msg = "True" <=>
                      (c_response.kind = "result" /\ c_response.flag) )
      ]_vars

\* C15 (amended): the same outcomes, and two more for a connected client:
\* when the write fails it raises FibaroIntercomConnectionError "Request
\* failed" with an id taken, nothing sent and no pending entry left; when no
\* response arrives in time it raises FibaroIntercomConnectionError "Request
\* timeout" and the pending entry is removed.
C15_OpenRelayOutcomesOrRequestError ==
    [][ /\ (c_call.op = "none" /\ IsConnected /\ c_result' # c_result
            /\ c_result'.type = "FibaroIntercomConnectionError") =>
              ( /\ c_result'.msg = "Request failed"
                /\ c_sock # "open"
                /\ c_request_id' = c_request_id + 1
                /\ c_pending' = c_pending /\ c_lastSent' = c_lastSent
                /\ c_call' = c_call )
        /\ ( /\ c_call.op = "open_relay" /\ c_call'.pc = "idle"
             /\ c_result'.type # "returned" ) =>
              ( /\ c_result' = [type |-> "FibaroIntercomConnectionError",
                                msg |-> "Request timeout", cause |-> "",
                                detail |-> ""]
                /\ c_response.kind = "none"
                /\ c_pending' = c_pending \ {c_call.id}
                /\ c_call'.op = "none" )
        /\ ( /\ c_call.op = "none" /\ ~IsConnected
             /\ c_result' # c_result
             /\ c_result'.type = "FibaroIntercomConnectionError" ) =>
              ( /\ c_result'.msg = "Not connected"
                /\ c_request_id' = c_request_id /\ c_pending' = c_pending
                /\ c_lastSent' = c_lastSent /\ c_call' = c_call )
        /\ (c_call.op = "none" /\ c_call'.op = "open_relay") =>
              ( /\ IsConnected
                /\ c_request_id' = c_request_id + 1
                /\ c_pending' = c_pending \cup {c_request_id'}
                /\ c_lastSent' = [method |-> "com.fibaro.intercom.relay.open",
                                  id |-> c_request_id', token |-> c_token,
                                  relay |-> c_call'.relay,
                                  timeout |-> c_call'.timeout,
                                  has_timeout |-> (c_call'.timeout # 0)] )
        /\ ( /\ c_call.op = "open_relay" /\ c_call'.pc = "idle"
             /\ c_result'.type = "returned" ) =>
              ( /\ c_response.id = c_call.id /\ c_lastSent.id = c_call.id
                /\ c_result'.msg \in {"True", "False"}
                /\ c_result'.msg = "True" <=>
                      (c_response.kind = "result" /\ c_response.flag) )
      ]_vars

\* relay.open was sent with the token held and the device answered true
C15_Witness ==
    /\ sut = "client" /\ c_call.op = "none"
    /\ c_result = [type |-> "returned", msg |-> "True", cause |-> "", detail |-> ""]
    /\ c_lastSent.method = "com.fibaro.intercom.relay.open"
    /\ c_lastSent.token = c_token /\ c_token # 0 /\ c_pending = {}

\* the handler registered for method m after the calls in h, 0 if none: the
\* one of the last add for m, if no remove for m came after it
RECURSIVE Registered(_, _)
Registered(h, m) ==
    IF h = <<>> THEN 0
    ELSE LET c == h[Len(h)] IN
         IF c.method = m THEN c.handler
         ELSE Registered(SubSeq(h, 1, Len(h) - 1), m)

\* C16: after any sequence of add_event_callback and remove_event_callback
\* calls, a notification for method m that matches no pending request
\* invokes exactly one handler, the one most recently registered for m, if m
\* was registered and not removed since, and otherwise none; no error comes
\* out of message handling, even when the handler raises; removing a method
\* that is not registered changes nothing and is no error.
C16_LastRegisteredHandlerCalled ==
    [][ /\ \A f \in ClientNotifications :
              (ClientHandleMessage(f) /\ f.id \notin c_pending) =>
                 /\ LET h == Registered(c_history, f.method) IN
                      IF h # 0
                      THEN c_delivered' = Append(c_delivered,
                                                 [handler |-> h, method |-> f.method,
                                                  n |-> f.n, flag |-> f.flag])
                      ELSE c_delivered' = c_delivered
                 /\ c_handled' = "returned"
                 /\ c_pending' = c_pending /\ c_result' = c_result
        /\ \A m \in Methods :
              (ClientRemoveCallback(m) /\ Registered(c_history, m) = 0) =>
                 (c_callbacks' = c_callbacks /\ c_result' = c_result)
      ]_vars

\* handler 1 then handler 2 were registered for one method; a notification
\* for it called handler 2, which raises, and message handling returned
C16_Witness ==
    /\ Len(c_history) = 2 /\ Len(c_delivered) = 1
    /\ c_history[1] = [op |-> "add", method |-> c_delivered[1].method, handler |-> 1]
    /\ c_history[2] = [op |-> "add", method |-> c_delivered[1].method, handler |-> 2]
    /\ c_delivered[1].handler = 2 /\ c_delivered[1].handler \in Raising
    /\ c_handled = "returned"

\* the client holds nothing of a session
ClientDisconnected ==
    /\ ~c_connected /\ c_token = 0 /\ c_websocket = "None"
    /\ c_reconnect_task = "none" /\ c_listen_task = "none"

\* C17: when disconnect() of the client returns, _connected is false, the
\* token and the websocket reference are None, close() was called exactly
\* once on the websocket that was held, if any, and the reconnect and
\* listener tasks are cancelled and forgotten; disconnect() on a client that
\* is disconnected already changes no state and closes nothing.
C17_ClientDisconnectClears ==
    [][ /\ (ClientDisconnectFinish \/ (ClientDisconnect /\ c_websocket = "None")) =>
              (ClientDisconnected' /\ c_result'.type = "returned")
        /\ ClientDisconnect =>
              /\ c_closes' = IF c_websocket = "ws" THEN 1 ELSE c_closes
              /\ c_websocket = "ws" => c_sock' # "open"
              /\ c_websocket = "None" => c_sock' = c_sock
        /\ ClientDisconnectFinish =>
              (c_closes' = 1 /\ c_closes = 1 /\ c_sock' # "open")
        /\ (ClientDisconnect /\ ClientDisconnected) =>
              UNCHANGED <<c_websocket, c_token, c_request_id, c_pending,
                          c_callbacks, c_connected, c_listen_task,
                          c_reconnect_task, c_sock, c_closes>>
      ]_vars

\* disconnect() has returned on a client that was connected: one close()
\* call on its websocket, nothing of the session is left
C17_Witness ==
    /\ sut = "client" /\ c_call.pc = "idle" /\ c_result.type = "returned"
    /\ ClientDisconnected /\ c_closes = 1 /\ c_sock = "closed"
    /\ c_request_id >= 1 /\ c_pending = {}

\* async_disconnect, called by the owner, returns in this step
DiscReturns == (DiscStart \/ DiscListenerEnded \/ DiscFinish) /\ disc' = "idle"

\* C18: when async_disconnect returns, from any prior state, the stop signal
\* is set, the listener, health-check and reconnect tasks have ended, the
\* WebSocket is closed and its reference cleared, token and token_expires_at
\* are None, connected is false, and the published snapshot is
\* connected=false with the relay states unchanged.
C18_DisconnectStopsEverything ==
    [][ DiscReturns =>
          /\ stop_event'
          /\ listen_task' = "none" /\ health_task' = "none"
          /\ reconnect_task' = "none" /\ n_reconnect' = 0
          /\ websocket' = "None" /\ sock' # "open"
          /\ token' = 0 /\ token_expires_at' = NoTime /\ ~connected'
          /\ data' = [connected |-> FALSE, relay_states |-> relay_states]
          /\ relay_states' = relay_states
      ]_vars

\* C19: after any loss of connection, with no disconnect() by the owner and
\* no Home Assistant stop, if the device accepts connections and answers
\* logins with a token, connected eventually becomes true again (or the
\* request ids of the model are used up).
C19_AutoHealing ==
    (~connected /\ last_authentication_time # NoTime)
        ~> (connected \/ message_id = MaxId)

\* C20: the listener tells apart how the transport closed: ConnectionClosed
\* with the normal-closure code 1000 causes no escalation (it marks nothing
\* and starts no reconnect task); with any other code the session is marked
\* disconnected, the snapshot published and recovery started (a reconnect
\* task, unless the stop signal is set).
C20_NormalClosureNotEscalated ==
    [][ /\ ListenStreamEnd =>
              UNCHANGED <<connected, data, reconnect_task, n_reconnect>>
        /\ ListenConnectionClosed =>
              /\ ~connected'
              /\ data' = [connected |-> FALSE, relay_states |-> relay_states]
              /\ ~stop_event => (ReconnectAlive' /\ n_reconnect' = 1)
              /\ stop_event => UNCHANGED <<reconnect_task, n_reconnect>>
      ]_vars

\* the tasks that are inside _async_connect_websocket (websockets.connect
\* awaited, or _async_login polling)
ConnectSequences ==
    {p \in {"caller"} : caller.pc \in {"connecting", "loginwait"}}
    \cup {p \in {"reconnect"} : reconnect_task \in {"connecting", "loginwait"}}
    \cup {p \in {"forced"} : forced \in {"Fconn", "Flogin"}}

\* C21: at most one connect+authenticate sequence (_async_connect_websocket)
\* is in progress at any time: a trigger arriving while the reconnect loop
\* is inside an attempt starts no second, overlapping attempt, and vice
\* versa.
C21_OneConnectSequence == Cardinality(ConnectSequences) <= 1

\* C22: relay_states is changed only by processing a relay.stateChanged
\* notification, which sets the one entry named; connects, disconnects,
\* disconnection handling, the reconnect and health-check loops, token and
\* error frames and async_open_relay leave every entry as it is, so the
\* last known values survive disconnects and reconnects.
C22_RelayStatesRetained ==
    [][ /\ relay_states' # relay_states => ListenRelayStateChanged
        /\ ListenRelayStateChanged =>
              /\ inbox.kind = "relay"
              /\ relay_states'[inbox.n] = inbox.flag
              /\ \A r \in Relays \ {inbox.n} : relay_states'[r] = relay_states[r]
      ]_vars

\* relay 1 was reported open, the session went through a disconnect and is
\* connected again, and both entries are as they were
C22_Witness ==
    /\ ~relay_states[0] /\ relay_states[1]
    /\ stop_event /\ connected /\ message_id >= 2

\* C23: the token does not survive a loss of the connection: whenever
\* connected goes from true to false (async_disconnect, a closure seen by
\* the listener, a health-check failure, a send failure), token and
\* token_expires_at are cleared.  (The token-expiry handler, which clears
\* connected first and the token at the end of its async_disconnect, is
\* left aside.)
C23_TokenClearedOnLoss ==
    [][ (connected /\ ~connected' /\ ~ListenTokenInvalid) =>
            (token' = 0 /\ token_expires_at' = NoTime)
      ]_vars

\* C24: once the stop signal is raised, disconnection handling still marks
\* the session disconnected and publishes but creates no reconnect task; a
\* reconnect loop waiting in backoff makes no further attempt, its next step
\* is to end; a health-check loop waiting for its next check ends without
\* sending a refresh; and neither wait outlasts the signal.
C24_StopEndsTheLoops ==
    /\ [][ /\ (stop_event /\ (ListenConnectionClosed \/ HealthPollTimeout)) =>
                 /\ ~connected'
                 /\ data' = [connected |-> FALSE, relay_states |-> relay_states]
                 /\ UNCHANGED <<reconnect_task, n_reconnect>>
           /\ (stop_event /\ ListenStreamEnd) =>
                 UNCHANGED <<reconnect_task, n_reconnect>>
           /\ (stop_event /\ reconnect_task = "backoff"
                 /\ reconnect_task' # reconnect_task) =>
                 (reconnect_task' = "none" /\ n_reconnect' = 0)
           /\ (stop_event /\ health_task = "wait" /\ health_task' # health_task) =>
                 /\ health_task' = "none"
                 /\ \A q \in sent' \ sent :
                       q.method # "com.fibaro.intercom.account.refreshToken"
         ]_vars
    /\ (stop_event /\ reconnect_task = "backoff") ~> (reconnect_task # "backoff")
    /\ (stop_event /\ health_task = "wait") ~> (health_task # "wait")

\* the stop signal is set while the reconnect loop is in its backoff wait and
\* the health-check loop in its wait
C24_Witness ==
    /\ stop_event /\ reconnect_task = "backoff" /\ health_task = "wait"

\* the outcome of disconnection handling run by the health check: the
\* session marked disconnected, the snapshot published, a reconnect task
\* alive unless the stop signal is set, the health-check loop ended, nothing
\* sent
HealthCheckFailed ==
    /\ ~connected'
    /\ data' = [connected |-> FALSE, relay_states |-> relay_states]
    /\ stop_event \/ (ReconnectAlive' /\ n_reconnect' = 1)
    /\ health_task' = "none"
    /\ sent' = sent

\* C25: the health check sends account.refreshToken only when the session
\* is connected and the token is not past its expiry; with an expired token
\* it runs disconnection handling and its loop ends; and when the refresh
\* was sent but no token frame is processed within the 20 polls, or the send
\* raises, it likewise runs disconnection handling and its loop ends.
C25_NoRefreshWhenExpired ==
    [][ /\ \A q \in sent' \ sent :
              q.method = "com.fibaro.intercom.account.refreshToken" =>
                 /\ connected /\ websocket = "ws" /\ health_task = "wait"
                 /\ token_expires_at = NoTime \/ now < token_expires_at
                 /\ q.token = token /\ health_task' = "poll"
        /\ HealthExpired => HealthCheckFailed
        /\ HealthPollTimeout => HealthCheckFailed
        /\ (HealthRefresh /\ sock # "open") => HealthCheckFailed
        /\ ( /\ health_task = "wait" /\ health_task' = "none" /\ ~stop_event
             /\ connected /\ sock = "open"
             /\ token_expires_at # NoTime /\ now >= token_expires_at ) =>
              HealthCheckFailed
      ]_vars

\* the health check found the token past its expiry: no refresh was sent,
\* the session is marked disconnected and the reconnect task created
C25_Witness ==
    /\ token # 0 /\ token_expires_at # NoTime /\ now >= token_expires_at
    /\ ~connected /\ ~data.connected /\ health_task = "none"
    /\ reconnect_task = "start" /\ sock = "open" /\ sent = {}

\* C26: whenever the coordinator is connected (and no async_disconnect is
\* under way), a health-check loop is running: the health-check task is
\* alive, waiting for its interval or polling for the refreshed token.
C26_HealthLoopWhileConnected ==
    (connected /\ disc = "idle") => TaskAlive(health_task)

\* async_connect is in its login poll and the device has rejected the login:
\* no token was ever stored, and the login request has been answered by a
\* frame that the listener has processed (an error frame, only logged)
LoginRejected ==
    /\ caller.op = "connect" /\ caller.pc = "loginwait"
    /\ token = 0 /\ sock = "open" /\ sent = {} /\ inbox = NoFrame

C28_AbandonedLoginStaysDisconnected ==
    ( /\ result = "ConnectionError:login_timeout" /\ caller = IdleCaller
      /\ message_id = 1 ) => ~connected

\* C29: a pending request is resolved at most once and leaves the table when
\* it is resolved: a response whose ID is in the table removes the entry and
\* hands the whole frame to the waiting _send_request; the timeout removes
\* the entry and raises; and a frame whose ID is no longer awaited resolves
\* nothing and raises nothing, under any interleaving of the response and the
\* timeout.
C29_ResolvedAtMostOnce ==
    [][ /\ \A f \in ClientResponses :
              ClientHandleMessage(f) =>
                 /\ c_handled' = "returned"
                 /\ IF f.id \in c_pending
                    THEN c_pending' = c_pending \ {f.id} /\ c_response' = f
                    ELSE c_pending' = c_pending /\ c_response' = c_response
        /\ ClientRequestTimeout =>
              /\ c_call.id \notin c_pending'
              /\ c_result'.type \notin {"none", "returned"}
              /\ c_response = NoResponse
        /\ (c_call.pc \in {"awaiting", "timedout"} /\ c_call'.pc = "idle") =>
              /\ c_call.id \notin c_pending'
              /\ c_call.id \notin c_pending \/ ClientRequestTimeout
              /\ c_result'.type # "none"
      ]_vars

\* C30: a frame that carries a method field is handled as a notification and
\* is never taken as an authentication result, even when it also carries
\* result.token: the token handling acts only on frames without a method,
\* and a frame with a method leaves the token, its expiry and the
\* authentication timestamp as they are.
C30_MethodBeforeToken ==
    [][ /\ ListenToken => inbox.method = ""
        /\ (inbox.method # "" /\ listen_task = "run" /\ inbox' = NoFrame) =>
              UNCHANGED <<token, token_expires_at, last_authentication_time>>
      ]_vars

\* the listener drops the frame it holds: a message that is not JSON, or a
\* frame whose handling raises (a token result whose exp_time is no number)
DropsFrame ==
    \/ ListenInvalidJson
    \/ ListenToken /\ inbox.exp_time = BadExpTime

\* C31: a frame that is not valid JSON, or whose handling raises, is dropped
\* alone: connected, token, expiry, relay_states and the background tasks
\* are unchanged, no reconnection is triggered, and the listener goes on
\* with the next frame.
C31_BadFrameDropped ==
    [][ DropsFrame =>
           /\ UNCHANGED <<connected, token, token_expires_at, relay_states,
                          last_authentication_time, stop_event, data>>
           /\ UNCHANGED <<health_task, reconnGroup, websocket, sock>>
           /\ listen_task' = "run" /\ inbox' = NoFrame
      ]_vars

\* a failure converted into a disconnection event: connected false, the
\* snapshot published, a reconnect task alive unless the stop signal is set
DisconnectionEvent ==
    /\ ~connected'
    /\ data' = [connected |-> FALSE, relay_states |-> relay_states]
    /\ stop_event \/ TaskAlive(reconnect_task')
    /\ (~stop_event /\ ~TaskAlive(reconnect_task)) => reconnect_task' = "start"

\* C32: a failure of a coordinator background task does not escape it: an
\* exception that ends the listener's receive loop, and an exception in the
\* health-check loop, end the task after a disconnection event; a failed
\* attempt of the reconnect loop is followed by the backoff wait.
C32_TaskFailuresBecomeDisconnection ==
    [][ /\ ListenConnectionClosed =>
              (DisconnectionEvent /\ listen_task' = "none")
        /\ (ListenStreamEnd /\ data' # data) =>
              (DisconnectionEvent /\ listen_task' = "none")
        /\ (HealthRefresh /\ sock # "open") =>
              (DisconnectionEvent /\ health_task' = "none")
        /\ HealthPollTimeout =>
              (DisconnectionEvent /\ health_task' = "none")
        /\ ReconnectAttemptFailed(MaxAttempt) =>
              /\ reconnect_task' = "backoff" /\ attempt' = attempt + 1
              /\ UNCHANGED <<connected, backoff, data, listen_task, health_task>>
      ]_vars

\* the connection was lost while connected: the listener has ended, the
\* session is marked disconnected, and the reconnect loop's first attempt
\* has failed and is followed by the backoff wait
C32_Witness ==
    /\ token # 0 /\ ~connected /\ ~data.connected /\ listen_task = "none"
    /\ sock = "lost" /\ reconnect_task = "backoff" /\ attempt = 2
    /\ ~stop_event

\* C33: when the delay before an attempt of the client's reconnect task is
\* over, the task calls connect() and that attempt completes: the task is
\* still running the attempt afterwards (it ends only with a success or with
\* the last failed attempt), and no reconnect task exists unless
\* max_reconnect_attempts > 0.
C33_ReconnectAttemptCompletes ==
    [][ /\ ClientReconnectAttempt => c_reconnect_task' # "ended"
        /\ (c_reconnect_task' = "sleep" /\ c_reconnect_task # "sleep") =>
              (ClientListenClosed /\ max_reconnect_attempts > 0)
      ]_vars

\* websockets.connect has returned in _async_connect_websocket and the new
\* connection is stored in self.websocket
OpensWebsocket == CallerConnectOk \/ ReconnectConnectOk \/ ForcedConnectOk

\* C34: at most one WebSocket of the coordinator is open: whenever
\* _async_connect_websocket opens a new connection, the connection held in
\* self.websocket until then is not open any more (closed by this side, by
\* the device, or lost).
C34_OneOpenWebsocket == [][OpensWebsocket => sock # "open"]_vars

\* C35: whenever the coordinator is connected a listener task is alive and
\* reads the WebSocket held in self.websocket; when the receive loop has
\* ended, connected does not remain true (states inside a running
\* async_disconnect, which clears connected as its last step, set aside).
C35_ListenerWhileConnected ==
    (connected /\ disc = "idle") => (listen_task # "none" /\ websocket = "ws")

\* C36: whenever the coordinator is connected (and no async_disconnect is
\* under way) the stop signal is not set, so that disconnection handling can
\* still start the reconnect loop.
C36_ConnectedMeansNotStopped == (connected /\ disc = "idle") => ~stop_event

\* C37: after async_disconnect has returned, and as long as the owner makes
\* no new call, connected is false, no listener and no health-check task is
\* alive and no WebSocket is open, also when a connection attempt was in
\* flight during the shutdown.
C37_ShutdownIsFinal ==
    (stop_event /\ disc = "idle") =>
        /\ ~connected
        /\ listen_task = "none" /\ health_task = "none"
        /\ sock # "open"

\* C38: the key set of relay_states is always exactly the valid relay set
\* {0, 1} and every value is a boolean, whatever frames arrive.
C38_RelayStatesKeys ==
    /\ DOMAIN relay_states = Relays
    /\ \A r \in DOMAIN relay_states : relay_states[r] \in BOOLEAN

C40_PendingOnlyWaiting ==
    \A id \in c_pending :
        c_call.pc \in {"awaiting", "timedout"} /\ c_call.id = id
====
